---- MODULE Spec2Model ----
(***************************************************************************)
(* Ledger and matching engine of llm_trader.backtest                       *)
(* (models.py: Lot / Position / Account / Order / Trade,                   *)
(*  execution.py: ExecutionConfig / ExecutionEngine).                      *)
(*                                                                         *)
(* Money is kept in fixed point: one unit of money is 1/Scale of one price *)
(* unit, so that the three fee rates of ExecutionConfig (0.0003, 0.00002,  *)
(* 0.001) are the integers 30, 2 and 100 and every product                 *)
(* price * volume * rate is exact.  A datetime is a tick number; ticks     *)
(* DayOf(t) * TicksPerDay .. DayOf(t) * TicksPerDay + TicksPerDay - 1 are  *)
(* the instants of one calendar day.  None is NoneDt.                      *)
(***************************************************************************)
EXTENDS Integers, Sequences, FiniteSets, TLC

\* ------------------------------------------------------------- bounds
MaxOrders == 3
MaxTime == 2
TicksPerDay == 2

\* ---------------------------------------------------------- constants
Scale == 100000

Symbols == {"A", "B"}
Times == 0 .. MaxTime
NoneDt == -1
DayOf(t) == t \div TicksPerDay

\* results a price_lookup(symbol, side) call can give (price units)
Prices == {0, 1, 30}

\* Account(cash=...) values the run starts from (money units)
InitialCash == {0, 8 * Scale}

\* class OrderSide
BUY == "buy"
SELL == "sell"

\* class ExecutionConfig: the defaults, in money units per Scale
DefaultConfig ==
    [ commission_rate     |-> 30,
      min_commission      |-> 5 * Scale,
      stamp_duty_rate     |-> 100,
      transfer_fee_rate   |-> 2,
      allow_same_day_sell |-> FALSE ]

\* the engine configurations explored: the defaults, without the commission
\* floor, and with same-day selling allowed
Configs ==
    { [DefaultConfig EXCEPT !.min_commission = m, !.allow_same_day_sell = a] :
        m \in {0, 5 * Scale}, a \in BOOLEAN }

\* The Order objects the caller owns (order_id, symbol, side, volume);
\* status, filled_volume and filled_amount are the mutable part, in `orders'.
OrderIds == {"b1", "s1", "b2"}
OrderDef ==
    [ b1 |-> [symbol |-> "A", side |-> BUY,  volume |-> 2],
      s1 |-> [symbol |-> "A", side |-> SELL, volume |-> 1],
      b2 |-> [symbol |-> "B", side |-> BUY,  volume |-> 1] ]

RECURSIVE SeqsUpTo(_, _)
SeqsUpTo(S, n) ==
    IF n = 0 THEN {<<>>}
    ELSE LET shorter == SeqsUpTo(S, n - 1)
         IN  shorter \cup {Append(q, x) : q \in shorter, x \in S}

\* the batches of at most n orders a caller can pass to execute
Batches(n) == SeqsUpTo(OrderIds, n)

VARIABLES
    config,      \* ExecutionEngine.config
    cash,        \* Account.cash
    positions,   \* Account.positions: symbol -> Position
    trades,      \* Account.trades
    orders,      \* order_id -> mutable fields of the Order object
    pc,          \* "idle" | "loop" | "done" | "raised": where execute() is
    batch,       \* execute(): the orders argument
    idx,         \* execute(): position of the for loop in batch (1-based)
    trading_dt,  \* execute(): the trading_dt argument
    looked,      \* execute(): price_lookup results of the orders processed so far
    ret,         \* execute(): the local list `trades' that is returned
    submitted,   \* number of orders handed to execute() so far
    equity_curve,\* Account.equity_curve
    repo,        \* the calls made on the persistence repository, in order
    session,     \* TradingSession: its adapter and where its execute() is
    backtest,    \* BacktestRunner.run: its locals
    risk,        \* RiskPolicy: an evaluate() call, its arguments and its result
    metrics,     \* compute_metrics: a call, its argument and its result
    gateway      \* ModelGateway: endpoint statistics and where chat_completions is

vars == <<config, cash, positions, trades, orders, pc, batch, idx,
          trading_dt, looked, ret, submitted,
          equity_curve, repo, session, backtest, risk, metrics, gateway>>

\* what lies outside ExecutionEngine: the account's equity curve and the drivers
outer == <<equity_curve, repo, session, backtest, risk, metrics, gateway>>

\* no TradingSession, BacktestRunner or RiskPolicy is running
NoDriver == [pc |-> "none"]

\* what the trading drivers never touch: the metrics call and the model gateway
services == <<metrics, gateway>>

\* ------------------------------------------------- models.py: Position
\* Position.volume
RECURSIVE Volume(_)
Volume(lots) ==
    IF lots = <<>> THEN 0 ELSE Head(lots).volume + Volume(Tail(lots))

\* mutant: add_lot that books one share more than was bought
AddLotOneMore(lots, volume, price, acquired_at) ==
    Append(lots, [volume |-> volume + 1, cost_price |-> price, acquired_at |-> acquired_at])

\* Position.add_lot
AddLot(lots, volume, price, acquired_at) ==
    Append(lots, [volume |-> volume, cost_price |-> price, acquired_at |-> acquired_at])

\* mutant: available_volume that forgets the `before' filter
AvailableVolumeAll(lots, before) == Volume(lots)

\* mutant: available_volume that also counts the lots acquired at `before'
RECURSIVE EligibleVolumeInclusive(_, _)
EligibleVolumeInclusive(lots, before) ==
    IF lots = <<>> THEN 0
    ELSE (IF Head(lots).acquired_at <= before THEN Head(lots).volume ELSE 0)
         + EligibleVolumeInclusive(Tail(lots), before)

\* Position.available_volume
RECURSIVE EligibleVolume(_, _)
EligibleVolume(lots, before) ==
    IF lots = <<>> THEN 0
    ELSE (IF Head(lots).acquired_at < before THEN Head(lots).volume ELSE 0)
         + EligibleVolume(Tail(lots), before)

AvailableVolume(lots, before) ==
    IF before = NoneDt THEN Volume(lots) ELSE EligibleVolume(lots, before)

\* sorted(self.lots, key=lambda l: l.acquired_at): a stable sort
RECURSIVE InsertLot(_, _)
InsertLot(lot, sorted) ==
    IF sorted = <<>> THEN <<lot>>
    ELSE IF Head(sorted).acquired_at <= lot.acquired_at
         THEN <<Head(sorted)>> \o InsertLot(lot, Tail(sorted))
         ELSE <<lot>> \o sorted

\* mutant: remove_volume walks the lots as stored, without sorting them
SortedLotsAsStored(lots) == lots

RECURSIVE SortedLots(_)
SortedLots(lots) ==
    IF lots = <<>> THEN <<>>
    ELSE InsertLot(lots[Len(lots)], SortedLots(SubSeq(lots, 1, Len(lots) - 1)))

\* the for loop of Position.remove_volume over the sorted lots
RECURSIVE DrainLots(_, _, _, _)
DrainLots(sorted, remaining, before, new_lots) ==
    IF sorted = <<>> THEN [remaining |-> remaining, new_lots |-> new_lots]
    ELSE LET lot == Head(sorted)
             rest == Tail(sorted)
         IN  IF before # NoneDt /\ lot.acquired_at >= before
             THEN DrainLots(rest, remaining, before, Append(new_lots, lot))
             ELSE IF remaining <= 0
             THEN DrainLots(rest, remaining, before, Append(new_lots, lot))
             ELSE LET sell_vol == IF lot.volume < remaining THEN lot.volume ELSE remaining
                      residual == lot.volume - sell_vol
                  IN  DrainLots(rest, remaining - sell_vol, before,
                                IF residual > 0
                                THEN Append(new_lots, [lot EXCEPT !.volume = residual])
                                ELSE new_lots)

\* mutant: remove_volume assigns self.lots before it checks `remaining'
RemoveVolumeAssignsFirst(lots, volume, before) ==
    LET r == DrainLots(SortedLots(lots), volume, before, <<>>)
    IN  [raised |-> r.remaining > 0, lots |-> r.new_lots]

\* Position.remove_volume: raises ValueError (raised = TRUE, lots kept) or
\* replaces self.lots by new_lots
RemoveVolume(lots, volume, before) ==
    LET r == DrainLots(SortedLots(lots), volume, before, <<>>)
    IN  IF r.remaining > 0
        THEN [raised |-> TRUE, lots |-> lots]
        ELSE [raised |-> FALSE, lots |-> r.new_lots]

\* Position.is_empty
IsEmpty(lots) == lots = <<>>

\* Account.get_position: creates the Position when the symbol has none
GetPosition(pos, symbol) ==
    IF symbol \in DOMAIN pos THEN pos
    ELSE [s \in DOMAIN pos \cup {symbol} |->
            IF s = symbol THEN [symbol |-> symbol, lots |-> <<>>] ELSE pos[s]]

\* del account.positions[symbol]
DelPosition(pos, symbol) == [s \in DOMAIN pos \ {symbol} |-> pos[s]]


\* ------------------------------------------- execution.py: the fee model
\* max(price * order.volume * commission_rate, min_commission)
Commission(price, volume) ==
    LET c == price * volume * config.commission_rate
    IN  IF c > config.min_commission THEN c ELSE config.min_commission

\* price * order.volume * transfer_fee_rate
TransferFee(price, volume) == price * volume * config.transfer_fee_rate

\* price * order.volume * stamp_duty_rate
StampDuty(price, volume) == price * volume * config.stamp_duty_rate

\* price * order.volume, in money units
Notional(price, volume) == price * volume * Scale

\* mutant: total_cost that leaves the transfer fee out
TotalCostNoTransfer(price, volume) ==
    Notional(price, volume) + Commission(price, volume)

\* total_cost of _execute_buy
TotalCost(price, volume) ==
    Notional(price, volume) + Commission(price, volume) + TransferFee(price, volume)

\* mutant: sell proceeds credited without taking the stamp duty off
NetProceedsNoStamp(price, volume) ==
    Notional(price, volume) - Commission(price, volume) - TransferFee(price, volume)

\* proceeds - commission - transfer_fee - stamp_duty of _execute_sell
NetProceeds(price, volume) ==
    Notional(price, volume) - Commission(price, volume)
        - TransferFee(price, volume) - StampDuty(price, volume)

\* Trade(...) as built by _execute_buy and _execute_sell
MakeTrade(id, price, fee, tax, dt) ==
    [ trade_id  |-> <<"trade-", id>>,
      order_id  |-> id,
      symbol    |-> OrderDef[id].symbol,
      side      |-> OrderDef[id].side,
      volume    |-> OrderDef[id].volume,
      price     |-> price,
      fee       |-> fee,
      tax       |-> tax,
      timestamp |-> dt ]

\* mutant: a rejection that puts the order back to created
MarkRejectedAsCreated(order) == [order EXCEPT !.status = "created"]

\* order.status = "rejected"
MarkRejected(order) == [order EXCEPT !.status = "rejected"]

\* mutant: the fill records its amounts but leaves the status alone
MarkFilledKeepsStatus(order, volume, amount) ==
    [order EXCEPT !.filled_volume = volume, !.filled_amount = amount]

\* order.status = "filled"; order.filled_volume = ...; order.filled_amount = ...
MarkFilled(order, volume, amount) ==
    [order EXCEPT !.status = "filled", !.filled_volume = volume, !.filled_amount = amount]

\* mutant: only negative prices are skipped
PriceSkippedNegative(price) == price < 0

\* if price <= 0: continue
PriceSkipped(price) == price <= 0

\* mutant: the batch walked from its end
CurrentOrderReversed == batch[Len(batch) + 1 - idx]

\* for order in orders: the order the loop is at
CurrentOrder == batch[idx]

\* mutant: the sell looks its Position up with get_position, which inserts
LookupCreating(pos, symbol) == GetPosition(pos, symbol)

\* account.positions.get(order.symbol): the map after the lookup (no insertion)
LookupForSell(pos, symbol) == pos

\* allowed_before = None if allow_same_day_sell else trading_dt
AllowedBefore == IF config.allow_same_day_sell THEN NoneDt ELSE trading_dt

\* mutant: the emptied Position is never deleted
DropNever(pos, symbol) == pos

\* if position.is_empty(): del account.positions[order.symbol]
DropIfEmpty(pos, symbol) ==
    IF IsEmpty(pos[symbol].lots) THEN DelPosition(pos, symbol) ELSE pos

\* ------------------------------------------------------------- the machine
Init ==
    /\ config \in Configs
    /\ cash \in InitialCash
    /\ positions = <<>>
    /\ trades = <<>>
    /\ orders = [o \in OrderIds |->
                    [status |-> "created", filled_volume |-> 0, filled_amount |-> 0]]
    /\ pc = "idle"
    /\ batch = <<>>
    /\ idx = 1
    /\ trading_dt = 0
    /\ looked = <<>>
    /\ ret = <<>>
    /\ submitted = 0
    /\ equity_curve = <<>>
    /\ repo = <<>>
    /\ session = NoDriver
    /\ backtest = NoDriver
    /\ risk = NoDriver
    /\ metrics = NoDriver
    /\ gateway = NoDriver

InLoop == pc = "loop" /\ idx <= Len(batch)

\* ExecutionEngine.execute is called: trades = []
Execute(os, dt) ==
    /\ pc # "loop"
    /\ submitted' = submitted + Len(os)
    /\ pc' = "loop"
    /\ batch' = os
    /\ idx' = 1
    /\ trading_dt' = dt
    /\ looked' = <<>>
    /\ ret' = <<>>
    /\ UNCHANGED <<config, cash, positions, trades, orders>>

\* one loop iteration taking `continue'
SkipOrder(price) ==
    /\ InLoop
    /\ PriceSkipped(price)
    /\ idx' = idx + 1
    /\ looked' = Append(looked, price)
    /\ UNCHANGED <<config, cash, positions, trades, orders, pc, batch, trading_dt,
                   ret, submitted>>

\* one loop iteration through _execute_buy
ExecuteBuy(price) ==
    /\ InLoop
    /\ ~PriceSkipped(price)
    /\ OrderDef[CurrentOrder].side = BUY
    /\ LET id         == CurrentOrder
           symbol     == OrderDef[id].symbol
           volume     == OrderDef[id].volume
           commission == Commission(price, volume)
           transfer   == TransferFee(price, volume)
           total_cost == TotalCost(price, volume)
       IN  IF cash < total_cost
           THEN /\ orders' = [orders EXCEPT ![id] = MarkRejected(@)]
                /\ UNCHANGED <<cash, positions, trades, ret>>
           ELSE LET pos   == GetPosition(positions, symbol)
                    trade == MakeTrade(id, price, commission + transfer, 0, trading_dt)
                IN  /\ cash' = cash - total_cost
                    /\ positions' =
                         [pos EXCEPT ![symbol].lots = AddLot(@, volume, price, trading_dt)]
                    /\ trades' = Append(trades, trade)
                    /\ ret' = Append(ret, trade)
                    /\ orders' = [orders EXCEPT
                                    ![id] = MarkFilled(@, volume, Notional(price, volume))]
    /\ idx' = idx + 1
    /\ looked' = Append(looked, price)
    /\ UNCHANGED <<config, pc, batch, trading_dt, submitted>>

\* one loop iteration through _execute_sell
ExecuteSell(price) ==
    /\ InLoop
    /\ ~PriceSkipped(price)
    /\ OrderDef[CurrentOrder].side # BUY
    /\ LET id     == CurrentOrder
           symbol == OrderDef[id].symbol
           volume == OrderDef[id].volume
           pos    == LookupForSell(positions, symbol)
       IN  IF symbol \notin DOMAIN pos
           THEN /\ orders' = [orders EXCEPT ![id] = MarkRejected(@)]
                /\ positions' = pos
                /\ pc' = pc
                /\ UNCHANGED <<cash, trades, ret>>
           ELSE IF AvailableVolume(pos[symbol].lots, AllowedBefore) < volume
           THEN /\ orders' = [orders EXCEPT ![id] = MarkRejected(@)]
                /\ positions' = pos
                /\ pc' = pc
                /\ UNCHANGED <<cash, trades, ret>>
           ELSE LET commission == Commission(price, volume)
                    transfer   == TransferFee(price, volume)
                    stamp_duty == StampDuty(price, volume)
                    removed    == RemoveVolume(pos[symbol].lots, volume, AllowedBefore)
                    trade      == MakeTrade(id, price, commission + transfer,
                                            stamp_duty, trading_dt)
                IN  IF removed.raised
                    THEN \* ValueError leaves execute before anything is assigned
                         /\ pc' = "raised"
                         /\ positions' = pos
                         /\ UNCHANGED <<cash, trades, ret, orders>>
                    ELSE /\ pc' = pc
                         /\ cash' = cash + NetProceeds(price, volume)
                         /\ positions' =
                              DropIfEmpty([pos EXCEPT ![symbol].lots = removed.lots], symbol)
                         /\ trades' = Append(trades, trade)
                         /\ ret' = Append(ret, trade)
                         /\ orders' = [orders EXCEPT
                                         ![id] = MarkFilled(@, volume, Notional(price, volume))]
    /\ idx' = IF pc' = "raised" THEN idx ELSE idx + 1
    /\ looked' = Append(looked, price)
    /\ UNCHANGED <<config, batch, trading_dt, submitted>>

\* return trades
Return ==
    /\ pc = "loop"
    /\ idx > Len(batch)
    /\ pc' = "done"
    /\ UNCHANGED <<config, cash, positions, trades, orders, batch, idx, trading_dt,
                   looked, ret, submitted>>

Next ==
    \/ \E os \in Batches(MaxOrders - submitted), dt \in Times :
         Execute(os, dt) /\ UNCHANGED outer
    \/ \E price \in Prices : SkipOrder(price) /\ UNCHANGED outer
    \/ \E price \in Prices : ExecuteBuy(price) /\ UNCHANGED outer
    \/ \E price \in Prices : ExecuteSell(price) /\ UNCHANGED outer
    \/ Return /\ UNCHANGED outer

Spec == Init /\ [][Next]_vars


\* ------------------------------------------------------------- properties
Max(a, b) == IF a > b THEN a ELSE b

\* a step that is one iteration of the for loop of execute
LoopStep == InLoop /\ idx' = idx + 1

\* the order the iteration is about, and the price looked up for it
StepId == batch[idx]
StepPrice == looked'[idx]
StepSymbol == OrderDef[StepId].symbol
StepVolume == OrderDef[StepId].volume

\* an iteration that fills its order: exactly these append a Trade
FillStep(side) ==
    /\ LoopStep
    /\ StepPrice > 0
    /\ OrderDef[StepId].side = side
    /\ orders'[StepId].status = "filled"

\* lots of a symbol, <<>> when the account holds no Position for it
LotsOf(pos, symbol) == IF symbol \in DOMAIN pos THEN pos[symbol].lots ELSE <<>>

\* shares of a symbol held in lots acquired at instant t
RECURSIVE VolumeAcquiredAt(_, _)
VolumeAcquiredAt(lots, t) ==
    IF lots = <<>> THEN 0
    ELSE (IF Head(lots).acquired_at = t THEN Head(lots).volume ELSE 0)
         + VolumeAcquiredAt(Tail(lots), t)

\* C1: account.cash >= 0 in every reachable state, whatever buys and sells
\* (volume > 0, price > 0, non-negative fees) execute has processed.
C1_CashNeverNegative == cash >= 0

\* C2: every Position of account.positions has lots of positive volume only
\* and a positive total volume: a fully sold symbol is absent, and no
\* rejected or skipped order leaves an empty Position behind.
C2_NoEmptyPosition ==
    \A s \in DOMAIN positions :
        /\ positions[s].symbol = s
        /\ Volume(positions[s].lots) > 0
        /\ \A i \in 1 .. Len(positions[s].lots) : positions[s].lots[i].volume > 0

\* C2 witness: every share of A has been sold again; its Position is gone.
C2_Witness ==
    /\ pc = "done"
    /\ "A" \notin DOMAIN positions
    /\ \E i \in 1 .. Len(trades) : trades[i].side = SELL /\ trades[i].symbol = "A"

\* C3: an iteration that marks its order rejected leaves cash, positions
\* (every lot), account.trades and the returned list as they were; of the
\* orders only the status of the rejected one changes.
C3_RejectionChangesOnlyStatus ==
    [][ (LoopStep /\ StepPrice > 0 /\ orders'[StepId].status = "rejected")
        => /\ cash' = cash
           /\ positions' = positions
           /\ trades' = trades
           /\ ret' = ret
           /\ orders' = [orders EXCEPT ![StepId].status = "rejected"] ]_vars

\* C3 witness: under T+1 a sell was rejected while its Position holds lots.
C3_Witness ==
    /\ idx > 1
    /\ pc \in {"loop", "done"}
    /\ ~config.allow_same_day_sell
    /\ OrderDef[batch[idx - 1]].side = SELL
    /\ looked[idx - 1] > 0
    /\ orders[batch[idx - 1]].status = "rejected"
    /\ OrderDef[batch[idx - 1]].symbol \in DOMAIN positions

\* C4: with allow_same_day_sell = False a filled sell takes nothing from the
\* lots acquired on the calendar day of its trading_dt.
C4_NoSameDaySell ==
    [][ (FillStep(SELL) /\ ~config.allow_same_day_sell)
        => \A t \in Times :
              DayOf(t) = DayOf(trading_dt)
              => VolumeAcquiredAt(LotsOf(positions', StepSymbol), t)
                   = VolumeAcquiredAt(LotsOf(positions, StepSymbol), t) ]_vars


\* C5 (as claimed): once an order is rejected or filled its status never
\* changes again, also when the same Order is passed to a later execute.
C5_StatusChangesOnce ==
    [][ \A o \in OrderIds :
          orders[o].status # "created" => orders'[o].status = orders[o].status ]_vars

\* C5 (amended): an Order changes only in the loop iteration that processes
\* it with a price > 0, which sets its status once, to filled or rejected
\* and never back to created; execute does not look at the status an order
\* already has, so a resubmitted order is processed and transitioned again.
C5_StatusSetOnlyByItsIteration ==
    [][ \A o \in OrderIds :
          orders'[o] # orders[o]
          => /\ LoopStep
             /\ o = StepId
             /\ StepPrice > 0
             /\ orders'[o].status \in {"filled", "rejected"} ]_vars

\* C5 witness: b1 was filled (its Trade is in account.trades) and, submitted
\* again, is now rejected.
C5_Witness ==
    /\ orders["b1"].status = "rejected"
    /\ \E i \in 1 .. Len(trades) : trades[i].order_id = "b1"

\* C6: a filled buy takes price*volume + max(price*volume*commission_rate,
\* min_commission) + price*volume*transfer_fee_rate from cash, appends one
\* Lot(volume, price, trading_dt) to the symbol's Position (created if
\* absent), records one Trade with fee = commission + transfer_fee and
\* tax = 0, and leaves the order filled with filled_volume = volume and
\* filled_amount = price*volume.
C6_FilledBuy ==
    [][ FillStep(BUY)
        => LET pv         == StepPrice * StepVolume
               commission == Max(pv * config.commission_rate, config.min_commission)
               transfer   == pv * config.transfer_fee_rate
               lot        == [volume |-> StepVolume, cost_price |-> StepPrice,
                              acquired_at |-> trading_dt]
               trade      == [trade_id |-> <<"trade-", StepId>>, order_id |-> StepId,
                              symbol |-> StepSymbol, side |-> BUY, volume |-> StepVolume,
                              price |-> StepPrice, fee |-> commission + transfer,
                              tax |-> 0, timestamp |-> trading_dt]
           IN  /\ cash' = cash - (pv * Scale + commission + transfer)
               /\ DOMAIN positions' = DOMAIN positions \cup {StepSymbol}
               /\ positions'[StepSymbol].lots
                    = Append(LotsOf(positions, StepSymbol), lot)
               /\ \A s \in DOMAIN positions \ {StepSymbol} : positions'[s] = positions[s]
               /\ trades' = Append(trades, trade)
               /\ ret' = Append(ret, trade)
               /\ orders' = [orders EXCEPT ![StepId] =
                               [status |-> "filled", filled_volume |-> StepVolume,
                                filled_amount |-> pv * Scale]] ]_vars

\* C6 witness: the last iteration filled a buy into a Position that already
\* held a lot, under the default min_commission.
C6_Witness ==
    /\ idx > 1
    /\ pc \in {"loop", "done"}
    /\ config.min_commission > 0
    /\ OrderDef[batch[idx - 1]].side = BUY
    /\ looked[idx - 1] > 0
    /\ orders[batch[idx - 1]].status = "filled"
    /\ trades # <<>>
    /\ trades[Len(trades)].order_id = batch[idx - 1]
    /\ Len(LotsOf(positions, OrderDef[batch[idx - 1]].symbol)) >= 2

\* C7: a filled sell adds price*volume - commission - transfer_fee -
\* stamp_duty to cash, takes exactly the order volume from the Position,
\* removes the Position when nothing is left, and records one Trade with
\* fee = commission + transfer_fee and tax = stamp_duty.
C7_FilledSell ==
    [][ FillStep(SELL)
        => LET pv         == StepPrice * StepVolume
               commission == Max(pv * config.commission_rate, config.min_commission)
               transfer   == pv * config.transfer_fee_rate
               stamp_duty == pv * config.stamp_duty_rate
               before     == Volume(LotsOf(positions, StepSymbol))
               trade      == [trade_id |-> <<"trade-", StepId>>, order_id |-> StepId,
                              symbol |-> StepSymbol, side |-> SELL, volume |-> StepVolume,
                              price |-> StepPrice, fee |-> commission + transfer,
                              tax |-> stamp_duty, timestamp |-> trading_dt]
           IN  /\ cash' = cash + pv * Scale - commission - transfer - stamp_duty
               /\ Volume(LotsOf(positions', StepSymbol)) = before - StepVolume
               /\ StepSymbol \in DOMAIN positions' <=> before > StepVolume
               /\ \A s \in DOMAIN positions \ {StepSymbol} :
                    s \in DOMAIN positions' /\ positions'[s] = positions[s]
               /\ trades' = Append(trades, trade)
               /\ ret' = Append(ret, trade)
               /\ orders'[StepId].status = "filled" ]_vars

\* C7 witness: a sell was filled and left one share in its Position.
C7_Witness ==
    /\ Len(trades) >= 2
    /\ trades[Len(trades)].side = SELL
    /\ trades[Len(trades)].symbol \in DOMAIN positions
    /\ Volume(positions[trades[Len(trades)].symbol].lots) = 1

\* C8: execute never raises and never stops early: when it returns, every
\* order of the batch has been looked at and each one whose price was > 0
\* is filled or rejected.
C8_EveryPricedOrderSettled ==
    /\ pc # "raised"
    /\ pc = "done"
       => /\ Len(looked) = Len(batch)
          /\ \A i \in 1 .. Len(batch) :
               looked[i] > 0 => orders[batch[i]].status \in {"filled", "rejected"}

\* C8 witness: a returned batch whose first order was rejected and in which
\* a later, different order was filled.
C8_Witness ==
    /\ pc = "done"
    /\ Len(batch) >= 2
    /\ looked[1] > 0
    /\ orders[batch[1]].status = "rejected"
    /\ \E j \in 2 .. Len(batch) :
         /\ batch[j] # batch[1]
         /\ looked[j] > 0
         /\ orders[batch[j]].status = "filled"

\* C9: an iteration whose looked-up price is <= 0 changes no order, no
\* Trade list and nothing of the account, and the loop goes on to the next
\* order.
C9_NonPositivePriceSkips ==
    [][ (LoopStep /\ StepPrice <= 0)
        => /\ orders' = orders
           /\ cash' = cash
           /\ positions' = positions
           /\ trades' = trades
           /\ ret' = ret
           /\ pc' = "loop" ]_vars

\* C9 witness: in a returned batch an order was skipped (still created) and
\* a later order was filled.
C9_Witness ==
    /\ pc = "done"
    /\ \E i \in 1 .. Len(batch) :
         /\ looked[i] <= 0
         /\ orders[batch[i]].status = "created"
         /\ \E j \in (i + 1) .. Len(batch) :
              /\ looked[j] > 0
              /\ orders[batch[j]].status = "filled"

\* the order ids of q are, in this order, ids of p[1 .. n] at increasing places
RECURSIVE IsSubsequence(_, _, _)
IsSubsequence(q, p, n) ==
    IF q = <<>> THEN TRUE
    ELSE IF n = 0 THEN FALSE
    ELSE IF q[Len(q)].order_id = p[n]
         THEN IsSubsequence(SubSeq(q, 1, Len(q) - 1), p, n - 1)
              \/ IsSubsequence(q, p, n - 1)
         ELSE IsSubsequence(q, p, n - 1)

\* cash the account held when the running execute call began
RECURSIVE CashEffect(_)
CashEffect(ts) ==
    IF ts = <<>> THEN 0
    ELSE (IF Head(ts).side = BUY
          THEN 0 - (Head(ts).price * Head(ts).volume * Scale + Head(ts).fee)
          ELSE Head(ts).price * Head(ts).volume * Scale - Head(ts).fee - Head(ts).tax)
         + CashEffect(Tail(ts))

CashAtCall == cash - CashEffect(ret)

\* C10: the batch is processed in the caller's order against the account
\* as the earlier orders left it: the returned trades follow the order of
\* their orders, a buy is filled exactly when the cash left by the earlier
\* orders covers its cost, and a sell exactly when the lots left by the
\* earlier orders hold its volume.
C10_RetFollowsBatch == IsSubsequence(ret, batch, idx - 1)

C10_DecidedOnCurrentAccount ==
    /\ (LoopStep /\ StepPrice > 0 /\ OrderDef[StepId].side = BUY)
       => (orders'[StepId].status = "filled"
           <=> cash >= StepPrice * StepVolume * Scale
                       + Max(StepPrice * StepVolume * config.commission_rate,
                             config.min_commission)
                       + StepPrice * StepVolume * config.transfer_fee_rate)
    /\ (LoopStep /\ StepPrice > 0 /\ OrderDef[StepId].side = SELL)
       => (orders'[StepId].status = "filled"
           <=> StepVolume <= AvailableVolume(LotsOf(positions, StepSymbol),
                                IF config.allow_same_day_sell THEN NoneDt ELSE trading_dt))

C10_BatchInCallerOrder ==
    []C10_RetFollowsBatch /\ [][C10_DecidedOnCurrentAccount]_vars

\* C10 witness: a returned batch <<sell, buy>> with both filled, where the
\* buy cost more than the cash the account held when the call began.
C10_Witness ==
    /\ pc = "done"
    /\ Len(ret) = 2
    /\ ret[1].side = SELL
    /\ ret[2].side = BUY
    /\ ret[2].price * ret[2].volume * Scale + ret[2].fee > CashAtCall


\* C11: the ValueError of remove_volume cannot be reached through execute:
\* for every lot history the engine builds, every cutoff (an instant, or
\* None for same-day selling) and every volume, a passed pre-check
\* available_volume(cutoff) >= volume means remove_volume(volume, cutoff)
\* does not raise and takes exactly that volume.
C11_PrecheckedRemovalNeverRaises ==
    /\ pc # "raised"
    /\ \A s \in DOMAIN positions :
         LET lots == positions[s].lots
         IN  \A cutoff \in Times \cup {NoneDt} :
               \A v \in 1 .. Volume(lots) :
                 AvailableVolume(lots, cutoff) >= v
                 => LET r == RemoveVolume(lots, v, cutoff)
                    IN  /\ ~r.raised
                        /\ Volume(r.lots) = Volume(lots) - v

\* C11 witness: under T+1 a sell was filled from an older lot while the
\* Position also holds a lot acquired at the sell's trading_dt.
C11_Witness ==
    /\ pc = "done"
    /\ ~config.allow_same_day_sell
    /\ trades # <<>>
    /\ trades[Len(trades)].side = SELL
    /\ trades[Len(trades)].timestamp = trading_dt
    /\ \E i \in 1 .. Len(LotsOf(positions, "A")) :
         positions["A"].lots[i].acquired_at >= trading_dt


\* =========================================================================
\* trading/session.py: TradingSession, with the adapters of
\* trading/execution_adapters.py and the broker of trading/brokers/mock.py
\* =========================================================================
MaxSessionOrders == 2

\* ExecutionEngine(execution_config) configurations a session is built with
SessionConfigs == {DefaultConfig}

\* TradingSessionConfig.initial_cash values explored (money units)
SessionCash == {8 * Scale}

\* the adapter a session is built with: SandboxExecutionAdapter or
\* LiveBrokerExecutionAdapter (provider "mock")
Adapters == {"sandbox", "live"}

\* what a price_lookup call made by _safe_price_lookup can do
ValuationOutcomes ==
    {[raises |-> FALSE, price |-> 30], [raises |-> TRUE, price |-> 0]}

\* the states of a session between two execute calls
SessionAtRest == {"idle", "returned", "not_implemented", "raised"}

RECURSIVE SumOver(_, _)
SumOver(S, f) ==
    IF S = {} THEN 0
    ELSE LET x == CHOOSE y \in S : TRUE IN f[x] + SumOver(S \ {x}, f)

\* sum(lot.cost_price * lot.volume for lot in self.lots), in price units
RECURSIVE LotsCost(_)
LotsCost(lots) ==
    IF lots = <<>> THEN 0
    ELSE Head(lots).cost_price * Head(lots).volume + LotsCost(Tail(lots))

\* the positions _compute_equity and _serialize_positions do not skip
HeldSymbols == {s \in DOMAIN positions : Volume(positions[s].lots) # 0}

\* position.volume * _safe_price_lookup(...): the looked-up SELL price, or
\* position.cost_price (= LotsCost / volume) when the lookup raises
PositionValue(s, outcome) ==
    IF outcome.raises
    THEN LotsCost(positions[s].lots) * Scale
    ELSE Volume(positions[s].lots) * outcome.price * Scale

\* TradingSession._compute_equity
ComputeEquity(val) ==
    cash + SumOver(HeldSymbols, [s \in HeldSymbols |-> PositionValue(s, val[s])])

\* TradingSession._serialize_positions (cost_price, a quotient, is left out)
SerializePositions ==
    [s \in HeldSymbols |->
        [symbol |-> s, volume |-> Volume(positions[s].lots), lots |-> positions[s].lots]]

\* orders_payload of _record
OrdersPayload(os) ==
    [i \in 1 .. Len(os) |->
        [ order_id      |-> os[i],
          symbol        |-> OrderDef[os[i]].symbol,
          side          |-> OrderDef[os[i]].side,
          volume        |-> OrderDef[os[i]].volume,
          status        |-> orders[os[i]].status,
          filled_volume |-> orders[os[i]].filled_volume,
          filled_amount |-> orders[os[i]].filled_amount ]]

\* trades_payload of _record: the same nine fields, side as its value
TradesPayload(ts) == ts

\* snapshot of _record
Snapshot(dt, val) ==
    [ timestamp |-> dt,
      cash      |-> cash,
      equity    |-> ComputeEquity(val),
      positions |-> SerializePositions ]

NoSnapshot == [timestamp |-> NoneDt, cash |-> 0, equity |-> 0, positions |-> <<>>]

\* MockBrokerClient.submit_orders: one Trade per order, at the looked-up price
BrokerTrade(id, price, dt) ==
    [ trade_id  |-> <<"live-", id>>,
      order_id  |-> id,
      symbol    |-> OrderDef[id].symbol,
      side      |-> OrderDef[id].side,
      volume    |-> OrderDef[id].volume,
      price     |-> price,
      fee       |-> 0,
      tax       |-> 0,
      timestamp |-> dt ]

\* mutant: execute without the check of the adapter
AdapterIsLiveNever == FALSE

\* isinstance(self.adapter, LiveBrokerExecutionAdapter)
AdapterIsLive == session.adapter = "live"

\* the collaborator calls of an execute call, each of which can raise:
\* price_lookup(order.symbol, order.side) in ExecutionEngine.execute, the
\* three repository writes of _record, the two broker calls of _execute_live
CollaboratorCalls == {"price_lookup", "write_trading_orders", "write_trading_trades",
                      "write_trading_equity", "submit_orders", "sync_positions"}

\* mutant: the exception of a collaborator is replaced by another one
LeavesExecuteWrapped(s, exception) == [s EXCEPT !.pc = "raised", !.error = "RuntimeError"]

\* no try statement encloses the call: the exception leaves execute
LeavesExecute(s, exception) == [s EXCEPT !.pc = "raised", !.error = exception]

\* _safe_price_lookup: `except Exception' catches what price_lookup raises
Caught(val) ==
    IF \E s \in DOMAIN val : val[s].raises THEN "price_lookup" ELSE "none"

SessionInit ==
    /\ config \in SessionConfigs
    /\ cash \in SessionCash
    /\ positions = <<>>
    /\ trades = <<>>
    /\ orders = [o \in OrderIds |->
                    [status |-> "created", filled_volume |-> 0, filled_amount |-> 0]]
    /\ pc = "idle"
    /\ batch = <<>>
    /\ idx = 1
    /\ trading_dt = 0
    /\ looked = <<>>
    /\ ret = <<>>
    /\ submitted = 0
    /\ equity_curve = <<>>
    /\ repo = <<>>
    /\ \E a \in Adapters :
         session = [ adapter |-> a, pc |-> "idle", calls |-> 0, orders |-> <<>>,
                     dt |-> NoneDt, trades |-> <<>>, i |-> 1, snapshot |-> NoSnapshot,
                     broker |-> <<>>, entry |-> "none",
                     error |-> "none", caught |-> "none" ]
    /\ backtest = NoDriver
    /\ risk = NoDriver
    /\ metrics = NoDriver
    /\ gateway = NoDriver

engine == <<config, cash, positions, trades, orders, pc, batch, idx,
            trading_dt, looked, ret, submitted>>

\* SandboxExecutionAdapter.execute -> _execute_sandbox: the engine is called
SandboxBegin(entry, os, dt) ==
    /\ Execute(os, dt)
    /\ session' = [session EXCEPT !.pc = "engine", !.entry = entry,
                                  !.calls = @ + 1, !.orders = os,
                                  !.dt = dt, !.trades = <<>>, !.i = 1,
                                  !.snapshot = NoSnapshot,
                                  !.error = "none", !.caught = "none"]
    /\ UNCHANGED <<equity_curve, repo, backtest, risk, services>>

\* the entry that was called is kept in session.entry: "session" for
\* TradingSession.execute, "adapter" for the adapter's own execute
\* LiveBrokerExecutionAdapter.execute -> _execute_live:
\* trades = broker_client.submit_orders(orders, dt)
LiveBegin(entry, os, dt, prices, raises) ==
    /\ LET called == [session EXCEPT
                        !.entry = entry, !.calls = @ + 1, !.orders = os, !.dt = dt,
                        !.trades = <<>>, !.i = 1, !.snapshot = NoSnapshot,
                        !.broker = Append(@, "submit_orders"),
                        !.error = "none", !.caught = "none"]
       IN  session' =
             IF raises
             THEN LeavesExecute(called, "submit_orders")
             ELSE [called EXCEPT
                     !.pc = "settle",
                     !.trades = [i \in 1 .. Len(os) |->
                                   BrokerTrade(os[i], prices[i], dt)]]
    /\ submitted' = submitted + Len(os)
    /\ UNCHANGED <<config, cash, positions, trades, orders, pc, batch, idx,
                   trading_dt, looked, ret, equity_curve, repo, backtest, risk, services>>

\* self.adapter.execute(self, dt, orders, price_lookup)
AdapterExecute(entry, os, dt, prices, raises) ==
    IF session.adapter = "sandbox"
    THEN SandboxBegin(entry, os, dt)
    ELSE LiveBegin(entry, os, dt, prices, raises)

\* TradingSession.execute
SessionExecute(os, dt, prices, raises) ==
    /\ session.pc \in SessionAtRest
    /\ dt > session.dt
    /\ IF AdapterIsLive
       THEN \* raise NotImplementedError
            /\ session' = [session EXCEPT !.pc = "not_implemented", !.entry = "session",
                                          !.error = "NotImplementedError",
                                          !.caught = "none"]
            /\ UNCHANGED <<engine, equity_curve, repo, backtest, risk, services>>
       ELSE AdapterExecute("session", os, dt, prices, raises)

\* LiveBrokerExecutionAdapter.execute called on the adapter itself, as
\* tests/trading/test_live_adapter.py does
LiveAdapterExecute(os, dt, prices, raises) ==
    /\ session.adapter = "live"
    /\ session.pc \in SessionAtRest
    /\ dt > session.dt
    /\ AdapterExecute("adapter", os, dt, prices, raises)

\* the engine loop inside _execute_sandbox
SandboxStep(price, raises) ==
    /\ session.pc = "engine"
    /\ IF raises
       THEN \* price_lookup(order.symbol, order.side) raises inside execute
            /\ InLoop
            /\ pc' = "raised"
            /\ session' = LeavesExecute(session, "price_lookup")
            /\ UNCHANGED <<config, cash, positions, trades, orders, batch, idx,
                           trading_dt, looked, ret, submitted>>
       ELSE /\ SkipOrder(price) \/ ExecuteBuy(price) \/ ExecuteSell(price)
            /\ session' = IF pc' = "raised"
                          THEN LeavesExecute(session, "ValueError")
                          ELSE session
    /\ UNCHANGED <<equity_curve, repo, backtest, risk, services>>

\* trades = self.execution_engine.execute(...) returns into _execute_sandbox
SandboxEngineReturn ==
    /\ session.pc = "engine"
    /\ Return
    /\ session' = [session EXCEPT !.pc = "record_orders", !.trades = ret]
    /\ UNCHANGED <<equity_curve, repo, backtest, risk, services>>


\* one iteration of `for trade in trades' in _settle_trades
SettleTrade ==
    /\ session.pc = "settle"
    /\ session.i <= Len(session.trades)
    /\ LET trade  == session.trades[session.i]
           id     == trade.order_id
           symbol == trade.symbol
           amount == Notional(trade.price, trade.volume)
       IN  /\ orders' = [orders EXCEPT ![id] = MarkFilled(@, trade.volume, amount)]
           /\ IF trade.side = BUY
              THEN /\ cash' = cash - (amount + trade.fee + trade.tax)
                   /\ positions' =
                        [GetPosition(positions, symbol) EXCEPT
                           ![symbol].lots = AddLot(@, trade.volume, trade.price, session.dt)]
                   /\ trades' = Append(trades, trade)
                   /\ session' = [session EXCEPT !.i = @ + 1]
              ELSE IF symbol \in DOMAIN positions
              THEN LET removed == RemoveVolume(positions[symbol].lots, trade.volume,
                                               session.dt)
                   IN  IF removed.raised
                       THEN \* ValueError leaves _settle_trades
                            /\ session' = LeavesExecute(session, "ValueError")
                            /\ UNCHANGED <<cash, positions, trades>>
                       ELSE /\ cash' = cash + (amount - trade.fee - trade.tax)
                            /\ positions' =
                                 DropIfEmpty([positions EXCEPT ![symbol].lots = removed.lots],
                                             symbol)
                            /\ trades' = Append(trades, trade)
                            /\ session' = [session EXCEPT !.i = @ + 1]
              ELSE /\ cash' = cash + (amount - trade.fee - trade.tax)
                   /\ trades' = Append(trades, trade)
                   /\ session' = [session EXCEPT !.i = @ + 1]
                   /\ UNCHANGED positions
    /\ UNCHANGED <<config, pc, batch, idx, trading_dt, looked, ret, submitted,
                   equity_curve, repo, backtest, risk, services>>

\* _settle_trades returns into _execute_live
SettleReturn ==
    /\ session.pc = "settle"
    /\ session.i > Len(session.trades)
    /\ session' = [session EXCEPT !.pc = "record_orders"]
    /\ UNCHANGED <<engine, equity_curve, repo, backtest, risk, services>>

\* _record: self.repository.write_trading_orders(...)
RecordOrders(raises) ==
    /\ session.pc = "record_orders"
    /\ IF raises
       THEN /\ session' = LeavesExecute(session, "write_trading_orders")
            /\ UNCHANGED repo
       ELSE /\ repo' = Append(repo, [op |-> "write_trading_orders", dt |-> session.dt,
                                     payload |-> OrdersPayload(session.orders)])
            /\ session' = [session EXCEPT !.pc = "record_trades"]
    /\ UNCHANGED <<engine, equity_curve, backtest, risk, services>>

\* _record: self.repository.write_trading_trades(...)
RecordTrades(raises) ==
    /\ session.pc = "record_trades"
    /\ IF raises
       THEN /\ session' = LeavesExecute(session, "write_trading_trades")
            /\ UNCHANGED repo
       ELSE /\ repo' = Append(repo, [op |-> "write_trading_trades", dt |-> session.dt,
                                     payload |-> TradesPayload(session.trades)])
            /\ session' = [session EXCEPT !.pc = "snapshot"]
    /\ UNCHANGED <<engine, equity_curve, backtest, risk, services>>

\* _record: snapshot = {...}; self.account.equity_curve.append(...)
RecordSnapshot(val) ==
    /\ session.pc = "snapshot"
    /\ LET snapshot == Snapshot(session.dt, val)
       IN  /\ equity_curve' = Append(equity_curve,
                                     [date |-> session.dt, equity |-> snapshot.equity])
           /\ session' = [session EXCEPT !.pc = "record_equity", !.snapshot = snapshot,
                                         !.caught = Caught(val)]
    /\ UNCHANGED <<engine, repo, backtest, risk, services>>

\* mutant: _record that returns without forwarding the snapshot
RecordEquitySkipped(raises) ==
    /\ session.pc = "record_equity"
    /\ session' = [session EXCEPT
                     !.pc = IF session.adapter = "live" THEN "sync" ELSE "returned"]
    /\ UNCHANGED <<engine, equity_curve, repo, backtest, risk, services>>

\* _record: self.repository.write_trading_equity(...), then the return of
\* _execute_sandbox, or on to broker_client.sync_positions() in _execute_live
RecordEquity(raises) ==
    /\ session.pc = "record_equity"
    /\ IF raises
       THEN /\ session' = LeavesExecute(session, "write_trading_equity")
            /\ UNCHANGED repo
       ELSE /\ repo' = Append(repo, [op |-> "write_trading_equity", dt |-> session.dt,
                                     payload |-> session.snapshot])
            /\ session' = [session EXCEPT
                             !.pc = IF session.adapter = "live" THEN "sync" ELSE "returned"]
    /\ UNCHANGED <<engine, equity_curve, backtest, risk, services>>

\* broker_client.sync_positions(); return trades
SyncPositions(raises) ==
    /\ session.pc = "sync"
    /\ LET called == [session EXCEPT !.broker = Append(@, "sync_positions")]
       IN  session' = IF raises
                      THEN LeavesExecute(called, "sync_positions")
                      ELSE [called EXCEPT !.pc = "returned"]
    /\ UNCHANGED <<engine, equity_curve, repo, backtest, risk, services>>

\* batches of new orders: none handed in before, none twice
FreshBatches(n) ==
    {os \in Batches(n) :
        /\ \A i \in 1 .. Len(os) : orders[os[i]].status = "created"
        /\ \A i, j \in 1 .. Len(os) : os[i] = os[j] => i = j}

\* the batches a session is called with
SessionBatches == FreshBatches(MaxSessionOrders - submitted)

SessionNext ==
    \/ /\ session.pc \in SessionAtRest
       /\ \E os \in SessionBatches, dt \in Times : \E prices \in [1 .. Len(os) -> Prices] :
            SessionExecute(os, dt, prices, FALSE)
    \/ /\ session.pc \in SessionAtRest
       /\ \E os \in SessionBatches, dt \in Times : \E prices \in [1 .. Len(os) -> Prices] :
            LiveAdapterExecute(os, dt, prices, FALSE)
    \/ \E price \in Prices : SandboxStep(price, FALSE)
    \/ SandboxEngineReturn
    \/ SettleTrade
    \/ SettleReturn
    \/ RecordOrders(FALSE)
    \/ RecordTrades(FALSE)
    \/ \E val \in [HeldSymbols -> ValuationOutcomes] : RecordSnapshot(val)
    \/ RecordEquity(FALSE)
    \/ SyncPositions(FALSE)

SessionSpec == SessionInit /\ [][SessionNext]_vars

\* the session with collaborators that can fail, followed up to the first
\* exception a collaborator raises: every collaborator call either returns
\* or raises
FaultyCall ==
    /\ session.pc \in SessionAtRest
    /\ session.error \notin CollaboratorCalls
    /\ \E os \in SessionBatches, dt \in Times, raises \in BOOLEAN :
         \E prices \in [1 .. Len(os) -> Prices] :
            \/ SessionExecute(os, dt, prices, raises)
            \/ LiveAdapterExecute(os, dt, prices, raises)

FaultySessionNext ==
    \/ FaultyCall
    \/ \E price \in Prices, raises \in BOOLEAN : SandboxStep(price, raises)
    \/ SandboxEngineReturn
    \/ SettleTrade
    \/ SettleReturn
    \/ \E raises \in BOOLEAN : RecordOrders(raises)
    \/ \E raises \in BOOLEAN : RecordTrades(raises)
    \/ \E val \in [HeldSymbols -> ValuationOutcomes] : RecordSnapshot(val)
    \/ \E raises \in BOOLEAN : RecordEquity(raises)
    \/ \E raises \in BOOLEAN : SyncPositions(raises)

FaultySessionSpec == SessionInit /\ [][FaultySessionNext]_vars


\* ------------------------------------------------------------------ C12
\* C12: whenever the session runs on the live adapter, the account keeps
\* the sandbox invariants: cash is never negative, no position is kept
\* with volume 0, and settlement never ends in an error.
C12_LiveKeepsSandboxInvariants ==
    session.adapter = "live" =>
        /\ cash >= 0
        /\ session.pc # "raised"
        /\ \A s \in DOMAIN positions : Volume(positions[s].lots) > 0

\* ------------------------------------------------------------------ C13
\* C13: a call of TradingSession.execute on a session with the live adapter
\* ends with NotImplementedError and changes nothing: the broker is not
\* called, no order, no account field, no repository write, no equity point.
C13_LiveExecuteRaisesFirst ==
    [][ ( /\ session.adapter = "live"
          /\ session.pc \in SessionAtRest
          /\ session'.entry = "session"
          /\ session' # session )
        => /\ session'.pc = "not_implemented"
           /\ session'.broker = session.broker
           /\ UNCHANGED <<engine, equity_curve, repo>> ]_vars

\* a live session that has traded through its adapter and is then asked to
\* execute: the account is not in its initial state when the call is refused
C13_Witness ==
    /\ session.adapter = "live"
    /\ session.entry = "session"
    /\ session.pc = "not_implemented"
    /\ session.broker # <<>>
    /\ trades # <<>>


\* ------------------------------------------------------------------ C17
\* the repository calls of one _record, in the order the claim gives them
RecordOps == <<"write_trading_orders", "write_trading_trades", "write_trading_equity">>

\* the sandbox execute calls that have returned
SandboxReturned ==
    IF session.pc \in {"idle", "returned"} THEN session.calls ELSE session.calls - 1

\* the repository calls the running _record has made so far
SandboxWritten ==
    CASE session.pc = "record_trades" -> 1
      [] session.pc \in {"snapshot", "record_equity"} -> 2
      [] OTHER -> 0

\* the number of write_trading_equity calls received by the repository
RECURSIVE CountOp(_, _)
CountOp(log, op) ==
    IF log = <<>> THEN 0
    ELSE (IF Head(log).op = op THEN 1 ELSE 0) + CountOp(Tail(log), op)

IsPrefix(a, b) == Len(a) <= Len(b) /\ SubSeq(b, 1, Len(a)) = a

\* C17 as stated: the point is appended to account.equity_curve after the
\* snapshot has been forwarded to the repository, so the curve never holds
\* more points than the repository holds snapshots.
C17_PointAppendedAfterSnapshotWrite ==
    session.adapter = "sandbox" =>
        Len(equity_curve) <= CountOp(repo, "write_trading_equity")

\* what every state of a sandbox session looks like: k returned calls have
\* left 3k repository calls and k points, and the running call is a prefix
\* of: orders write, trades write, point appended, snapshot write
C17_SandboxLedgerOfCalls ==
    session.adapter = "sandbox" =>
        LET k == SandboxReturned
            w == SandboxWritten
        IN  /\ session.pc # "raised"
            /\ Len(repo) = 3 * k + w
            /\ \A j \in 1 .. Len(repo) : repo[j].op = RecordOps[((j - 1) % 3) + 1]
            /\ Len(equity_curve) = k + (IF session.pc = "record_equity" THEN 1 ELSE 0)
            /\ \A c \in 1 .. k :
                 /\ equity_curve[c].equity = repo[3 * c].payload.equity
                 /\ equity_curve[c].date = repo[3 * c].payload.timestamp
                 /\ repo[3 * c - 2].dt = repo[3 * c].dt
                 /\ repo[3 * c - 1].dt = repo[3 * c].dt
                 /\ repo[3 * c].dt = repo[3 * c].payload.timestamp
            /\ session.pc = "record_equity" =>
                 equity_curve[k + 1] =
                     [date |-> session.dt, equity |-> session.snapshot.equity]
            /\ session.pc \in {"record_trades", "snapshot", "record_equity", "returned"} =>
                 LET b == 3 * (session.calls - 1)
                 IN  /\ repo[b + 1].payload = OrdersPayload(batch)
                     /\ repo[b + 1].dt = trading_dt
                     /\ session.pc # "record_trades" => repo[b + 2].payload = ret

\* what every step of a sandbox session does: the engine is entered exactly
\* when an execute call begins, _record starts exactly when the engine
\* returns, and the repository log and the curve only grow at their end
C17_SandboxStep ==
    session.adapter = "sandbox" =>
        /\ (pc' = "loop" /\ pc # "loop")
             <=> (session.pc \in SessionAtRest /\ session'.pc = "engine")
        /\ (pc' = "done" /\ pc # "done")
             <=> (session.pc = "engine" /\ session'.pc = "record_orders")
        /\ session.pc # "engine" => UNCHANGED <<cash, positions, trades, orders>>
        /\ IsPrefix(repo, repo') /\ Len(repo') <= Len(repo) + 1
        /\ IsPrefix(equity_curve, equity_curve')
        /\ Len(equity_curve') <= Len(equity_curve) + 1

\* C17 (amended): each sandbox execute makes exactly one engine call, then
\* forwards the order records and the trade records, appends exactly one
\* {date, equity} point, and then forwards the snapshot with that same
\* equity; earlier points and repository calls are never changed.
C17_SandboxRecordsEveryCall ==
    [] C17_SandboxLedgerOfCalls /\ [][C17_SandboxStep]_vars

\* two sandbox calls have returned: the first with orders that were all
\* rejected, the second with no orders
C17_Witness ==
    /\ session.adapter = "sandbox"
    /\ session.pc = "returned"
    /\ session.calls = 2
    /\ session.orders = <<>>
    /\ trades = <<>>
    /\ \E id \in OrderIds : orders[id].status = "rejected"
    /\ Len(equity_curve) = 2
    /\ Len(repo) = 6


\* =========================================================================
\* backtest/engine.py: BacktestRunner.run
\* =========================================================================
MaxBars == 2
MaxBacktestOrders == 2

\* BacktestRunner(initial_cash=...) values explored (money units)
BacktestCash == {8 * Scale}

\* the open and close of a bar
BarPrices == {[open |-> 1, close |-> 30], [open |-> 30, close |-> 1]}

\* Bar: {"dt", "symbol", "open", "close"}
Bars ==
    {[dt |-> t, symbol |-> s, open |-> p.open, close |-> p.close] :
        t \in Times, s \in Symbols, p \in BarPrices}

\* the `bars' argument of run: any bars in any order
BarLists == SeqsUpTo(Bars, MaxBars)

\* d[k] = v on a dict
Put(d, k, v) == [x \in DOMAIN d \cup {k} |-> IF x = k THEN v ELSE d[x]]

\* grouped[dt][bar["symbol"]] = bar, for bar in bars
RECURSIVE Grouped(_)
Grouped(bars) ==
    IF bars = <<>> THEN <<>>
    ELSE LET g     == Grouped(SubSeq(bars, 1, Len(bars) - 1))
             bar   == bars[Len(bars)]
             inner == IF bar.dt \in DOMAIN g THEN g[bar.dt] ELSE <<>>
         IN  Put(g, bar.dt, Put(inner, bar.symbol, bar))

\* mutant: the timestamps in descending order
RECURSIVE SortedDescending(_)
SortedDescending(S) ==
    IF S = {} THEN <<>>
    ELSE LET m == CHOOSE x \in S : \A y \in S : x >= y
         IN  <<m>> \o SortedDescending(S \ {m})

\* sorted(grouped.keys())
RECURSIVE Sorted(_)
Sorted(S) ==
    IF S = {} THEN <<>>
    ELSE LET m == CHOOSE x \in S : \A y \in S : x <= y
         IN  <<m>> \o Sorted(S \ {m})

\* the timestamp of the running iteration of `for dt in dates', and its bars
CurrentDt == backtest.dates[backtest.di]
CurrentSymbols == backtest.grouped[CurrentDt]

\* mutant: positions valued at the bar's open
BarCloseAsOpen(bar) == bar.open

\* bar["close"]
BarClose(bar) == bar.close

\* price_lookup of run: float(symbols[symbol]["open"]); KeyError without a bar
PriceLookupRaises(symbol) == symbol \notin DOMAIN CurrentSymbols
PriceLookup(symbol) == CurrentSymbols[symbol].open

\* for symbol, position in list(account.positions.items()):
\*     if position.is_empty(): account.positions.pop(symbol, None)
PruneEmpty(pos) == [s \in {x \in DOMAIN pos : ~IsEmpty(pos[x].lots)} |-> pos[s]]

\* equity = account.cash; equity += position.volume * close_price
BacktestEquity(pos) ==
    cash + SumOver(DOMAIN pos,
                   [s \in DOMAIN pos |->
                       Volume(pos[s].lots) * BarClose(CurrentSymbols[s]) * Scale])

BacktestInit ==
    /\ config = DefaultConfig
    /\ cash \in BacktestCash
    /\ positions = <<>>
    /\ trades = <<>>
    /\ orders = [o \in OrderIds |->
                    [status |-> "created", filled_volume |-> 0, filled_amount |-> 0]]
    /\ pc = "idle"
    /\ batch = <<>>
    /\ idx = 1
    /\ trading_dt = 0
    /\ looked = <<>>
    /\ ret = <<>>
    /\ submitted = 0
    /\ equity_curve = <<>>
    /\ repo = <<>>
    /\ session = NoDriver
    /\ backtest = [ pc |-> "idle", bars |-> <<>>, grouped |-> <<>>, dates |-> <<>>,
                    di |-> 1, signals |-> <<>>, all_trades |-> <<>>,
                    error |-> "none" ]
    /\ risk = NoDriver
    /\ metrics = NoDriver
    /\ gateway = NoDriver

\* run, up to the loop: the bars are grouped and the timestamps sorted
Run(bars) ==
    /\ backtest.pc = "idle"
    /\ LET grouped == Grouped(bars)
       IN  backtest' = [backtest EXCEPT !.pc = "dates", !.bars = bars,
                                        !.grouped = grouped,
                                        !.dates = Sorted(DOMAIN grouped)]
    /\ UNCHANGED <<engine, equity_curve, repo, session, risk, services>>

\* orders = signal_provider(dt, symbols, account); execution_engine.execute(...)
Signal(os) ==
    /\ backtest.pc = "dates"
    /\ backtest.di <= Len(backtest.dates)
    /\ Execute(os, CurrentDt)
    /\ backtest' = [backtest EXCEPT
                      !.pc = "engine",
                      !.signals = Append(@, [dt |-> CurrentDt,
                                             symbols |-> DOMAIN CurrentSymbols])]
    /\ UNCHANGED <<equity_curve, repo, session, risk, services>>

\* one iteration of the engine's loop, with the run's price_lookup
EngineStep ==
    /\ backtest.pc = "engine"
    /\ InLoop
    /\ IF PriceLookupRaises(OrderDef[CurrentOrder].symbol)
       THEN \* KeyError leaves execute and run
            /\ pc' = "raised"
            /\ backtest' = [backtest EXCEPT !.pc = "raised", !.error = "KeyError: order"]
            /\ UNCHANGED <<config, cash, positions, trades, orders, batch, idx,
                           trading_dt, looked, ret, submitted>>
       ELSE LET price == PriceLookup(OrderDef[CurrentOrder].symbol)
            IN  /\ SkipOrder(price) \/ ExecuteBuy(price) \/ ExecuteSell(price)
                /\ backtest' = IF pc' = "raised"
                               THEN [backtest EXCEPT !.pc = "raised",
                                                     !.error = "ValueError"]
                               ELSE backtest
    /\ UNCHANGED <<equity_curve, repo, session, risk, services>>

\* trades = self.execution_engine.execute(...); all_trades.extend(trades)
EngineReturn ==
    /\ backtest.pc = "engine"
    /\ Return
    /\ backtest' = [backtest EXCEPT !.pc = "equity", !.all_trades = @ \o ret]
    /\ UNCHANGED <<equity_curve, repo, session, risk, services>>

\* the equity of the timestamp: the default of .get("close", ...) is computed
\* first, so price_lookup(symbol, OrderSide.BUY) runs for every position
Equity ==
    /\ backtest.pc = "equity"
    /\ LET pos == PruneEmpty(positions)
       IN  IF \E s \in DOMAIN pos : PriceLookupRaises(s)
           THEN \* KeyError leaves run
                /\ backtest' = [backtest EXCEPT !.pc = "raised",
                                                !.error = "KeyError: valuation"]
                /\ positions' = pos
                /\ UNCHANGED equity_curve
           ELSE /\ positions' = pos
                /\ equity_curve' = Append(equity_curve,
                                          [date |-> CurrentDt, equity |-> BacktestEquity(pos)])
                /\ backtest' = [backtest EXCEPT !.pc = "dates", !.di = @ + 1]
    /\ UNCHANGED <<config, cash, trades, orders, pc, batch, idx, trading_dt, looked,
                   ret, submitted, repo, session, risk, services>>

\* after the loop: repository.write_backtest_result(...); return BacktestResult
Finish ==
    /\ backtest.pc = "dates"
    /\ backtest.di > Len(backtest.dates)
    /\ repo' = Append(repo, [op |-> "write_backtest_result",
                             equity_curve |-> equity_curve,
                             trades |-> backtest.all_trades])
    /\ backtest' = [backtest EXCEPT !.pc = "returned"]
    /\ UNCHANGED <<engine, equity_curve, session, risk, services>>

BacktestNext ==
    \/ backtest.pc = "idle" /\ \E bars \in BarLists : Run(bars)
    \/ /\ backtest.pc = "dates"
       /\ \E os \in FreshBatches(MaxBacktestOrders - submitted) : Signal(os)
    \/ EngineStep
    \/ EngineReturn
    \/ Equity
    \/ Finish

BacktestSpec == BacktestInit /\ [][BacktestNext]_vars


\* ------------------------------------------------------------------ C14
\* the distinct timestamps of the bars handed to run
BarStamps == {backtest.bars[i].dt : i \in 1 .. Len(backtest.bars)}

\* C14: signal_provider is called once per distinct bar timestamp, in
\* strictly ascending order and without skipping one; the equity curve has
\* one point for each of these calls, in the same order; when run returns,
\* every distinct timestamp has had its call and its point.
C14_OncePerTimestampAscending ==
    LET sig == backtest.signals
    IN  /\ \A i, j \in 1 .. Len(sig) : i < j => sig[i].dt < sig[j].dt
        /\ \A i \in 1 .. Len(sig) :
             /\ sig[i].dt \in BarStamps
             /\ \A t \in BarStamps : t < sig[i].dt => \E j \in 1 .. i - 1 : sig[j].dt = t
        /\ Len(equity_curve) <= Len(sig)
        /\ \A i \in 1 .. Len(equity_curve) : equity_curve[i].date = sig[i].dt
        /\ backtest.pc = "returned" =>
             /\ Len(sig) = Cardinality(BarStamps)
             /\ Len(equity_curve) = Cardinality(BarStamps)

\* run has returned for two bars handed in with the later timestamp first
C14_Witness ==
    /\ backtest.pc = "returned"
    /\ Len(backtest.bars) = 2
    /\ backtest.bars[1].dt > backtest.bars[2].dt
    /\ Len(backtest.signals) = 2
    /\ Len(equity_curve) = 2

\* ------------------------------------------------------------------ C15
\* C15: a position whose symbol has no bar at the timestamp does not stop
\* the run: the valuation never ends run with an error.
C15_MissingBarValuationCompletes == backtest.error # "KeyError: valuation"

\* ------------------------------------------------------------------ C16
\* the last bar handed to run for this timestamp and symbol
LastBar(dt, symbol) ==
    LET found == {k \in 1 .. Len(backtest.bars) :
                     backtest.bars[k].dt = dt /\ backtest.bars[k].symbol = symbol}
    IN  backtest.bars[CHOOSE k \in found : \A j \in found : j <= k]

\* every trade of the backtest has the open of its timestamp's bar as price
C16_FillsAtOpen ==
    \A i \in 1 .. Len(trades) :
        trades[i].price = LastBar(trades[i].timestamp, trades[i].symbol).open

\* the point appended for a timestamp is cash plus volume times close
C16_EquityAtClose ==
    equity_curve' # equity_curve =>
        LET point == equity_curve'[Len(equity_curve')]
            held  == DOMAIN positions'
        IN  /\ Len(equity_curve') = Len(equity_curve) + 1
            /\ cash' = cash
            /\ point.date = CurrentDt
            /\ point.equity =
                 cash + SumOver(held, [s \in held |->
                           Volume(positions'[s].lots) * LastBar(CurrentDt, s).close * Scale])

\* C16: in a backtest every order fills at the open of its timestamp's bar,
\* and the equity appended for the timestamp is the cash after execution
\* plus, for every held symbol, volume times the close of that bar; with the
\* default fees a buy of 1000 at 10.0 costs 10005.2.
C16_FillAtOpenEquityAtClose ==
    /\ [] C16_FillsAtOpen
    /\ [][C16_EquityAtClose]_vars
    /\ [] (TotalCost(10, 1000) = 1000520000)

\* a buy of 2 filled at the open 1 and the point valued it at the close 30
C16_Witness ==
    /\ backtest.pc = "dates"
    /\ Len(trades) = 1
    /\ trades[1].side = BUY
    /\ trades[1].price = 1
    /\ Len(equity_curve) = 1
    /\ equity_curve[1].equity = cash + 2 * 30 * Scale
    /\ cash = 8 * Scale - TotalCost(1, 2)


\* =========================================================================
\* trading/policy.py: RiskPolicy.evaluate
\* =========================================================================
MaxCurve == 3

\* ratio thresholds are counted in twentieths: 1 is 0.05, 10 is 0.5
RatioUnit == 20

\* RiskThresholds explored: each check disabled (0) or enabled
Thresholds ==
    [ max_equity_drawdown   : {0, 10},
      max_position_ratio    : {0, 10},
      max_equity_volatility : {0, 10},
      max_sector_exposure   : {0, 10},
      max_holding_days      : {0, 1} ]

\* sector_lookup: both symbols in one sector, or no sector known for B
SectorLookups == {[s \in Symbols |-> "S1"],
                  [s \in Symbols |-> IF s = "A" THEN "S1" ELSE "None"]}

\* an item of equity_curve: item["equity"] is a number, or a value that
\* float() rejects (None is skipped the same way)
EquityValues ==
    {[kind |-> "num", equity |-> v] : v \in {0, 2, 4}} \cup {[kind |-> "text", equity |-> 0]}

\* the curves handed to evaluate; point i carries the date of day i - 1
EquityCurves == SeqsUpTo(EquityValues, MaxCurve)
DateOfPoint(i) == (i - 1) * TicksPerDay

\* the lots of a position dict: bought on day 0, or after the curve's last day
OldLot == [acquired_at |-> 0]
NewLot == [acquired_at |-> DateOfPoint(MaxCurve)]

\* the position dicts handed to evaluate (_serialize_positions: one per symbol)
PositionDicts ==
    {p \in [symbol : Symbols, volume : {1, 2}, cost_price : {1},
            lots : {<<NewLot>>, <<OldLot, OldLot>>}] :
        p.symbol = "B" => p.volume = 1}
PositionLists ==
    {ps \in SeqsUpTo(PositionDicts, Cardinality(Symbols)) :
        \A i, j \in 1 .. Len(ps) : ps[i].symbol = ps[j].symbol => i = j}

\* RiskPolicy._normalize_equity
RECURSIVE NormalizeFrom(_, _)
NormalizeFrom(curve, i) ==
    IF i > Len(curve) THEN <<>>
    ELSE IF curve[i].kind # "num"
    THEN NormalizeFrom(curve, i + 1)
    ELSE <<[timestamp |-> DateOfPoint(i), value |-> curve[i].equity]>>
             \o NormalizeFrom(curve, i + 1)
NormalizeEquity(curve) == NormalizeFrom(curve, 1)

\* mutant: only a negative threshold disables a check
DisabledIfNegative(threshold) == threshold < 0

\* `if threshold <= 0: return'
Disabled(threshold) == threshold <= 0

\* max(value for _, value in series)
RECURSIVE MaxEquity(_)
MaxEquity(series) ==
    IF Len(series) = 1 THEN series[1].value
    ELSE Max(series[1].value, MaxEquity(Tail(series)))

\* mutant: equality with the threshold does not trigger
DrawdownReachedStrict(max_equity, latest_equity, threshold) ==
    (max_equity - latest_equity) * RatioUnit > threshold * max_equity

\* (max_equity - latest_equity) / max_equity >= max_equity_drawdown
DrawdownReached(max_equity, latest_equity, threshold) ==
    (max_equity - latest_equity) * RatioUnit >= threshold * max_equity

\* mutant: the percentage is taken of the latest equity
PercentageOfLatest(max_equity, latest_equity) ==
    IF latest_equity <= 0 THEN 0
    ELSE ((max_equity - latest_equity) * 10000 * 2 + latest_equity) \div (2 * latest_equity)

\* f"{drawdown * 100:.2f}" with drawdown = (max_equity - latest_equity) /
\* max_equity: the percentage the message shows, in hundredths of a percent,
\* rounded to the nearest
Percentage(max_equity, latest_equity) ==
    ((max_equity - latest_equity) * 10000 * 2 + max_equity) \div (2 * max_equity)

\* RiskPolicy._check_drawdown
CheckDrawdown(threshold, series) ==
    IF Disabled(threshold) THEN <<>>
    ELSE LET max_equity    == MaxEquity(series)
             latest_equity == series[Len(series)].value
         IN  IF max_equity <= 0 THEN <<>>
             ELSE IF DrawdownReached(max_equity, latest_equity, threshold)
             THEN <<[rule |-> "drawdown", key |-> "-"]>>
             ELSE <<>>

\* the loop of _check_volatility: the returns, as fractions
RECURSIVE Returns(_, _, _)
Returns(series, i, previous) ==
    IF i > Len(series) THEN <<>>
    ELSE IF previous = 0
    THEN Returns(series, i + 1, series[i].value)
    ELSE <<[num |-> series[i].value - previous, den |-> previous]>>
             \o Returns(series, i + 1, series[i].value)

RECURSIVE Product(_)
Product(denominators) ==
    IF denominators = <<>> THEN 1 ELSE Head(denominators) * Product(Tail(denominators))

RECURSIVE Sum(_)
Sum(numbers) == IF numbers = <<>> THEN 0 ELSE Head(numbers) + Sum(Tail(numbers))

\* statistics.stdev(returns) >= threshold, on the common denominator d:
\* sum((n*r_i - sum(r))^2) / (n^2 * d^2 * (n - 1)) >= threshold^2
StdevReached(returns, threshold) ==
    LET n == Len(returns)
        d == Product([i \in 1 .. n |-> returns[i].den])
        r == [i \in 1 .. n |-> returns[i].num * (d \div returns[i].den)]
        t == Sum(r)
        squares == Sum([i \in 1 .. n |-> (n * r[i] - t) * (n * r[i] - t)])
    IN  squares * RatioUnit * RatioUnit >= threshold * threshold * n * n * d * d * (n - 1)

\* the percentage shown by the message of _check_drawdown, NoneDt when the
\* check returns None
DrawdownMessage(threshold, series) ==
    IF series = <<>> \/ CheckDrawdown(threshold, series) = <<>> THEN NoneDt
    ELSE Percentage(MaxEquity(series), series[Len(series)].value)

\* RiskPolicy._check_volatility
CheckVolatility(threshold, series) ==
    IF Disabled(threshold) \/ Len(series) < 3 THEN <<>>
    ELSE LET returns == Returns(series, 2, series[1].value)
         IN  IF Len(returns) < 2 THEN <<>>
             ELSE IF StdevReached(returns, threshold)
             THEN <<[rule |-> "volatility", key |-> "-"]>>
             ELSE <<>>

\* RiskPolicy._resolve_latest_equity
ResolveLatestEquity(series) == series[Len(series)].value

\* notion / latest_equity >= threshold
RatioReached(notion, latest_equity, threshold) ==
    notion * RatioUnit >= threshold * latest_equity

\* mutant: _check_position_exposure without `if latest_equity <= 0'
CheckPositionExposureOnAnyEquity(threshold, series, ps) ==
    IF ps = <<>> \/ series = <<>> \/ threshold <= 0 THEN <<>>
    ELSE LET latest_equity == series[Len(series)].value
             Alert(i) == IF ps[i].volume * ps[i].cost_price * RatioUnit
                               >= threshold * latest_equity
                         THEN <<[rule |-> "position", key |-> ps[i].symbol]>> ELSE <<>>
         IN  IF Len(ps) = 1 THEN Alert(1) ELSE Alert(1) \o Alert(2)

\* RiskPolicy._check_position_exposure
RECURSIVE ExposureAlerts(_, _, _)
ExposureAlerts(ps, latest_equity, threshold) ==
    IF ps = <<>> THEN <<>>
    ELSE LET position == Head(ps)
             notion   == position.volume * position.cost_price
         IN  (IF RatioReached(notion, latest_equity, threshold)
              THEN <<[rule |-> "position", key |-> position.symbol]>>
              ELSE <<>>) \o ExposureAlerts(Tail(ps), latest_equity, threshold)
CheckPositionExposure(threshold, series, ps) ==
    IF ps = <<>> \/ series = <<>> \/ Disabled(threshold) THEN <<>>
    ELSE LET latest_equity == ResolveLatestEquity(series)
         IN  IF latest_equity <= 0 THEN <<>>
             ELSE ExposureAlerts(ps, latest_equity, threshold)


\* self._sector_lookup(str(symbol)) or "UNKNOWN"
SectorOf(lookup, symbol) ==
    IF lookup[symbol] = "None" THEN "UNKNOWN" ELSE lookup[symbol]

\* exposures[sector] += notion, on a dict that keeps the order of insertion
AddExposure(exposures, sector, notion) ==
    IF \E i \in 1 .. Len(exposures) : exposures[i].sector = sector
    THEN [i \in 1 .. Len(exposures) |->
            IF exposures[i].sector = sector
            THEN [exposures[i] EXCEPT !.notion = @ + notion]
            ELSE exposures[i]]
    ELSE Append(exposures, [sector |-> sector, notion |-> notion])

RECURSIVE Exposures(_, _, _)
Exposures(ps, lookup, exposures) ==
    IF ps = <<>> THEN exposures
    ELSE LET position == Head(ps)
         IN  Exposures(Tail(ps), lookup,
                       AddExposure(exposures, SectorOf(lookup, position.symbol),
                                   position.volume * position.cost_price))

RECURSIVE SectorAlerts(_, _, _)
SectorAlerts(exposures, latest_equity, threshold) ==
    IF exposures = <<>> THEN <<>>
    ELSE (IF RatioReached(Head(exposures).notion, latest_equity, threshold)
          THEN <<[rule |-> "sector", key |-> Head(exposures).sector]>>
          ELSE <<>>) \o SectorAlerts(Tail(exposures), latest_equity, threshold)

\* RiskPolicy._check_sector_concentration
CheckSectorConcentration(threshold, series, ps, lookup) ==
    IF Disabled(threshold) \/ ps = <<>> \/ series = <<>> THEN <<>>
    ELSE LET latest_equity == ResolveLatestEquity(series)
         IN  IF latest_equity <= 0 THEN <<>>
             ELSE SectorAlerts(Exposures(ps, lookup, <<>>), latest_equity, threshold)

\* RiskPolicy._resolve_evaluation_time: the last timestamp of the series,
\* datetime.utcnow() for an empty series
ResolveEvaluationTime(series, now) ==
    IF series = <<>> THEN now ELSE series[Len(series)].timestamp

\* reference_time - acquired_dt > timedelta(days=max_days)
OverAge(lot, reference_time, max_days) ==
    reference_time - lot.acquired_at > max_days * TicksPerDay

RECURSIVE HoldingAlerts(_, _, _)
HoldingAlerts(ps, reference_time, max_days) ==
    IF ps = <<>> THEN <<>>
    ELSE LET position == Head(ps)
         IN  (IF \E i \in 1 .. Len(position.lots) :
                     OverAge(position.lots[i], reference_time, max_days)
              THEN <<[rule |-> "holding", key |-> position.symbol]>>
              ELSE <<>>) \o HoldingAlerts(Tail(ps), reference_time, max_days)

\* RiskPolicy._check_holding_period
CheckHoldingPeriod(max_days, series, ps, now) ==
    IF Disabled(max_days) \/ ps = <<>> THEN <<>>
    ELSE HoldingAlerts(ps, ResolveEvaluationTime(series, now), max_days)

\* mutant: evaluate that stops at the first check that alerts
CollectFirst(checks) ==
    IF \E i \in 1 .. Len(checks) : checks[i] # <<>>
    THEN checks[CHOOSE i \in 1 .. Len(checks) :
                    checks[i] # <<>> /\ \A j \in 1 .. i - 1 : checks[j] = <<>>]
    ELSE <<>>

\* alerts.append / alerts.extend, check after check
RECURSIVE Collect(_)
Collect(checks) ==
    IF checks = <<>> THEN <<>> ELSE Head(checks) \o Collect(Tail(checks))

\* the alerts of RiskPolicy.evaluate
EvaluateAlerts(thresholds, lookup, curve, ps, now) ==
    LET series == NormalizeEquity(curve)
    IN  Collect(<<
            IF series # <<>>
            THEN CheckDrawdown(thresholds.max_equity_drawdown, series) ELSE <<>>,
            IF series # <<>>
            THEN CheckVolatility(thresholds.max_equity_volatility, series) ELSE <<>>,
            CheckPositionExposure(thresholds.max_position_ratio, series, ps),
            CheckSectorConcentration(thresholds.max_sector_exposure, series, ps, lookup),
            CheckHoldingPeriod(thresholds.max_holding_days, series, ps, now) >>)

\* what an alert_callback does when it is called: the default logs; one
\* raises; one empties details["alerts"], the list evaluate iterates and returns
Callbacks == {"log", "raises", "clears"}

\* for message in alerts: self._alert_callback(message, {"alerts": alerts})
\* `alerts' is one list object: the callback is handed the list the loop
\* walks and the decision carries
RECURSIVE CallbackLoop(_, _, _, _)
CallbackLoop(callback, alerts, i, calls) ==
    IF i > Len(alerts) THEN [raised |-> FALSE, alerts |-> alerts, calls |-> calls]
    ELSE LET call == [message |-> alerts[i], details |-> alerts]
         IN  CASE callback = "raises" ->
                    [raised |-> TRUE, alerts |-> alerts, calls |-> Append(calls, call)]
               [] callback = "clears" ->
                    CallbackLoop(callback, <<>>, i + 1, Append(calls, call))
               [] OTHER ->
                    CallbackLoop(callback, alerts, i + 1, Append(calls, call))

\* the values datetime.utcnow() is given when the series is empty
NowValues(curve) ==
    IF NormalizeEquity(curve) = <<>> THEN {0, DateOfPoint(MaxCurve + 1)} ELSE {NoneDt}

\* the account and its drivers while something else is looked at: an
\* untouched engine on an empty account, no session, no backtest
NoTrading ==
    /\ config = DefaultConfig
    /\ cash = 0
    /\ positions = <<>>
    /\ trades = <<>>
    /\ orders = [o \in OrderIds |->
                    [status |-> "created", filled_volume |-> 0, filled_amount |-> 0]]
    /\ pc = "idle"
    /\ batch = <<>>
    /\ idx = 1
    /\ trading_dt = 0
    /\ looked = <<>>
    /\ ret = <<>>
    /\ submitted = 0
    /\ equity_curve = <<>>
    /\ repo = <<>>
    /\ session = NoDriver
    /\ backtest = NoDriver

\* RiskPolicy(thresholds, alert_callback, sector_lookup)
NewRiskPolicy(thresholds, callback, lookup) ==
    [ pc |-> "ready", thresholds |-> thresholds, sector_lookup |-> lookup,
      callback |-> callback,
      equity_curve |-> <<>>, positions |-> <<>>, now |-> NoneDt,
      alerts |-> <<>>, proceed |-> FALSE, calls |-> <<>>,
      drawdown |-> NoneDt ]

PolicyInit ==
    /\ NoTrading
    /\ metrics = NoDriver
    /\ gateway = NoDriver
    /\ \E thresholds \in Thresholds, lookup \in SectorLookups :
         risk = NewRiskPolicy(thresholds, "log", lookup)

\* RiskPolicy.evaluate(equity_curve, positions): the checks, the callback
\* loop, and the RiskDecision returned, unless the callback raised
Evaluate(curve, ps, now) ==
    /\ risk.pc = "ready"
    /\ LET alerts == EvaluateAlerts(risk.thresholds, risk.sector_lookup, curve, ps, now)
           loop   == CallbackLoop(risk.callback, alerts, 1, <<>>)
       IN  risk' = [risk EXCEPT !.pc = IF loop.raised THEN "raised" ELSE "evaluated",
                                !.equity_curve = curve,
                                !.positions = ps, !.now = now,
                                !.alerts = IF loop.raised THEN <<>> ELSE loop.alerts,
                                !.proceed = (alerts = <<>>),
                                !.calls = loop.calls,
                                !.drawdown =
                                    DrawdownMessage(risk.thresholds.max_equity_drawdown,
                                                    NormalizeEquity(curve))]
    /\ UNCHANGED <<engine, equity_curve, repo, session, backtest, services>>

PolicyNext ==
    /\ risk.pc = "ready"
    /\ \E curve \in EquityCurves, ps \in PositionLists :
         \E now \in NowValues(curve) : Evaluate(curve, ps, now)

PolicySpec == PolicyInit /\ [][PolicyNext]_vars

\* the risk scenario of tests/trading/test_policy.py: an account of 100000
\* that fell to 94000, holding 1000 shares bought at 90, under a drawdown
\* threshold of 0.05 or 1.0 and a position threshold of 0.4, 1.0 or none
ScenarioThresholds ==
    [ max_equity_drawdown   : {1, 20},
      max_position_ratio    : {0, 8, 20},
      max_equity_volatility : {0},
      max_sector_exposure   : {0},
      max_holding_days      : {0} ]

\* the default sector_lookup: lambda _symbol: "UNKNOWN"
DefaultSectorLookup == [s \in Symbols |-> "UNKNOWN"]

ScenarioCurves ==
    SeqsUpTo({[kind |-> "num", equity |-> v] : v \in {100000, 94000}}
                 \cup {[kind |-> "text", equity |-> 0]}, MaxCurve)
ScenarioPositions ==
    {<<>>, <<[symbol |-> "A", volume |-> 1000, cost_price |-> 90, lots |-> <<>>]>>}

ScenarioInit ==
    /\ NoTrading
    /\ metrics = NoDriver
    /\ gateway = NoDriver
    /\ \E thresholds \in ScenarioThresholds :
         risk = NewRiskPolicy(thresholds, "log", DefaultSectorLookup)

ScenarioNext ==
    /\ risk.pc = "ready"
    /\ \E curve \in ScenarioCurves, ps \in ScenarioPositions :
         \E now \in NowValues(curve) : Evaluate(curve, ps, now)

ScenarioSpec == ScenarioInit /\ [][ScenarioNext]_vars

\* the policy at the edges: curves that are empty, at zero or below it, and
\* callbacks that do more than log
EdgeCurves == SeqsUpTo({[kind |-> "num", equity |-> v] : v \in {-2, 0, 2}}, MaxCurve)

EdgeInit ==
    /\ NoTrading
    /\ metrics = NoDriver
    /\ gateway = NoDriver
    /\ \E thresholds \in Thresholds, callback \in Callbacks :
         risk = NewRiskPolicy(thresholds, callback, DefaultSectorLookup)

EdgeNext ==
    /\ risk.pc = "ready"
    /\ \E curve \in EdgeCurves, ps \in PositionLists :
         \E now \in NowValues(curve) : Evaluate(curve, ps, now)

EdgeSpec == EdgeInit /\ [][EdgeNext]_vars


\* ------------------------------------------------------------------ C18
Evaluated == risk.pc = "evaluated"

\* the place of a rule in the order of the checks
RuleRank(rule) ==
    CASE rule = "drawdown" -> 1
      [] rule = "volatility" -> 2
      [] rule = "position" -> 3
      [] rule = "sector" -> 4
      [] rule = "holding" -> 5

AlertSet == {risk.alerts[i] : i \in 1 .. Len(risk.alerts)}

\* the place of a symbol in the positions handed to evaluate
PlaceOf(symbol) ==
    CHOOSE i \in 1 .. Len(risk.positions) : risk.positions[i].symbol = symbol

\* the notion of the positions of one sector
SectorNotion(sector) ==
    LET mine == {i \in 1 .. Len(risk.positions) :
                    SectorOf(risk.sector_lookup, risk.positions[i].symbol) = sector}
    IN  SumOver(mine, [i \in mine |->
                          risk.positions[i].volume * risk.positions[i].cost_price])

\* C18: evaluate runs all the checks: every triggered rule has its one
\* message (drawdown, volatility, every symbol over the position ratio,
\* every sector over the sector ratio, every symbol with a lot held too
\* long), nothing else is in alerts, the messages are in the order of the
\* checks, and proceed is true exactly when alerts is empty.
C18_EveryTriggeredRuleAlerts ==
    Evaluated =>
        LET th     == risk.thresholds
            series == NormalizeEquity(risk.equity_curve)
            ps     == risk.positions
            a      == risk.alerts
            latest == series[Len(series)].value
            priced == series # <<>> /\ latest > 0
            ref    == IF series = <<>> THEN risk.now ELSE series[Len(series)].timestamp
        IN  /\ risk.proceed <=> a = <<>>
            /\ \A i, j \in 1 .. Len(a) :
                 /\ i < j => RuleRank(a[i].rule) <= RuleRank(a[j].rule)
                 /\ a[i] = a[j] => i = j
                 /\ (i < j /\ a[i].rule = a[j].rule /\ a[i].rule \in {"position", "holding"})
                      => PlaceOf(a[i].key) < PlaceOf(a[j].key)
            /\ [rule |-> "drawdown", key |-> "-"] \in AlertSet
                 <=> (series # <<>> /\ CheckDrawdown(th.max_equity_drawdown, series) # <<>>)
            /\ [rule |-> "volatility", key |-> "-"] \in AlertSet
                 <=> (series # <<>> /\ CheckVolatility(th.max_equity_volatility, series) # <<>>)
            /\ \A s \in Symbols :
                 [rule |-> "position", key |-> s] \in AlertSet
                   <=> \E i \in 1 .. Len(ps) :
                         /\ ps[i].symbol = s
                         /\ th.max_position_ratio > 0 /\ priced
                         /\ ps[i].volume * ps[i].cost_price * RatioUnit
                              >= th.max_position_ratio * latest
            /\ \A sector \in {"S1", "UNKNOWN", "None"} :
                 [rule |-> "sector", key |-> sector] \in AlertSet
                   <=> /\ \E i \in 1 .. Len(ps) :
                            SectorOf(risk.sector_lookup, ps[i].symbol) = sector
                       /\ th.max_sector_exposure > 0 /\ priced
                       /\ SectorNotion(sector) * RatioUnit >= th.max_sector_exposure * latest
            /\ \A s \in Symbols :
                 [rule |-> "holding", key |-> s] \in AlertSet
                   <=> \E i \in 1 .. Len(ps) :
                         /\ ps[i].symbol = s
                         /\ th.max_holding_days > 0
                         /\ \E k \in 1 .. Len(ps[i].lots) :
                              ref - ps[i].lots[k].acquired_at
                                > th.max_holding_days * TicksPerDay
            /\ \A i \in 1 .. Len(a) : a[i].rule \in {"drawdown", "volatility", "position",
                                                     "sector", "holding"}

\* all five rules have alerted in one evaluation
C18_Witness ==
    /\ Evaluated
    /\ {risk.alerts[i].rule : i \in 1 .. Len(risk.alerts)}
         = {"drawdown", "volatility", "position", "sector", "holding"}
    /\ Len(risk.alerts) >= 6
    /\ ~risk.proceed

\* ------------------------------------------------------------------ C19
ThresholdOf(thresholds, rule) ==
    CASE rule = "drawdown" -> thresholds.max_equity_drawdown
      [] rule = "volatility" -> thresholds.max_equity_volatility
      [] rule = "position" -> thresholds.max_position_ratio
      [] rule = "sector" -> thresholds.max_sector_exposure
      [] rule = "holding" -> thresholds.max_holding_days

\* C19: a check whose threshold is 0 or negative puts no alert in the
\* decision, for every curve and every positions; with the five thresholds
\* at 0 or below, the decision is proceed with no alert.
C19_DisabledCheckNeverAlerts ==
    Evaluated =>
        LET th == risk.thresholds
            negative == [ max_equity_drawdown |-> -5, max_position_ratio |-> -5,
                          max_equity_volatility |-> -5, max_sector_exposure |-> -5,
                          max_holding_days |-> -1 ]
            again(t) == EvaluateAlerts(t, risk.sector_lookup, risk.equity_curve,
                                       risk.positions, risk.now)
        IN  /\ \A i \in 1 .. Len(risk.alerts) :
                 ThresholdOf(th, risk.alerts[i].rule) > 0
            /\ (\A rule \in {"drawdown", "volatility", "position", "sector", "holding"} :
                    ThresholdOf(th, rule) <= 0)
                 => risk.proceed /\ risk.alerts = <<>>
            /\ again(negative) = <<>>
            /\ LET one == again([th EXCEPT !.max_equity_drawdown = -5])
               IN  \A i \in 1 .. Len(one) : one[i].rule # "drawdown"

\* every check is disabled, and the inputs would alert the enabled checks:
\* the curve has lost half its maximum, B is the whole equity, A is held long
C19_Witness ==
    /\ Evaluated
    /\ \A rule \in {"drawdown", "volatility", "position", "sector", "holding"} :
         ThresholdOf(risk.thresholds, rule) = 0
    /\ Len(risk.equity_curve) = 3
    /\ risk.equity_curve[1].equity = 4
    /\ risk.equity_curve[3] = [kind |-> "num", equity |-> 2]
    /\ Len(risk.positions) = 2
    /\ risk.positions[1].lots = <<OldLot, OldLot>>
    /\ risk.proceed /\ risk.alerts = <<>>

\* ------------------------------------------------------------------ C20
\* the places of the numeric items of the curve handed to evaluate
NumericPlaces == {i \in 1 .. Len(risk.equity_curve) : risk.equity_curve[i].kind = "num"}

\* C20: with a positive drawdown threshold and a positive maximum of the
\* curve, the drawdown alert is there exactly when (max - latest) / max is
\* at least the threshold; max is over all numeric items, latest is the
\* last numeric item, and equality triggers.
C20_DrawdownAlertIffRatioReached ==
    ( /\ Evaluated
      /\ risk.thresholds.max_equity_drawdown > 0
      /\ NumericPlaces # {} )
    => LET maximum == CHOOSE v \in {risk.equity_curve[i].equity : i \in NumericPlaces} :
                          \A i \in NumericPlaces : risk.equity_curve[i].equity <= v
           last    == CHOOSE i \in NumericPlaces : \A j \in NumericPlaces : j <= i
           latest  == risk.equity_curve[last].equity
       IN  maximum > 0 =>
             ( [rule |-> "drawdown", key |-> "-"] \in AlertSet
                 <=> (maximum - latest) * RatioUnit
                       >= risk.thresholds.max_equity_drawdown * maximum )

\* the drawdown is exactly the threshold (4 -> 2 with 0.5), the maximum is
\* not the first item, and an item float() rejects follows the latest equity
C20_Witness ==
    /\ Evaluated
    /\ risk.thresholds.max_equity_drawdown = 10
    /\ risk.equity_curve = << [kind |-> "num", equity |-> 4],
                              [kind |-> "num", equity |-> 2],
                              [kind |-> "text", equity |-> 0] >>
    /\ [rule |-> "drawdown", key |-> "-"] \in AlertSet

\* =========================================================================
\* the ledger of ExecutionEngine: trades, lots and cash
\* =========================================================================

\* ------------------------------------------------------------------ C25
\* the last n entries of a list
LastOf(list, n) == SubSeq(list, Len(list) - n + 1, Len(list))

\* the iteration fills its order, on either side
AnyFillStep == FillStep(BUY) \/ FillStep(SELL)

\* the list execute returns is the tail of account.trades
C25_RetIsTailOfTrades ==
    /\ Len(ret) <= Len(trades)
    /\ LastOf(trades, Len(ret)) = ret

\* every step keeps the old account.trades as a prefix; an iteration that
\* fills appends one Trade of its order to account.trades and to the
\* returned list; any other step appends nothing
C25_OneTradePerFillStep ==
    /\ IsPrefix(trades, trades')
    /\ AnyFillStep
       => /\ Len(trades') = Len(trades) + 1
          /\ trades'[Len(trades')].order_id = StepId
          /\ ret' = Append(ret, trades'[Len(trades')])
    /\ ~AnyFillStep
       => /\ trades' = trades
          /\ (pc = "loop" => ret' = ret)

\* C25: exactly one Trade is created per filled order and none for a
\* rejected or skipped one; account.trades only grows at its end, every call
\* leaving what it found as a prefix; and the list execute returns is
\* exactly what the call appended to account.trades, in the same order.
C25_OneTradePerFill ==
    /\ [] C25_RetIsTailOfTrades
    /\ [][C25_OneTradePerFillStep]_vars

\* C25 witness: a second execute call has returned one Trade after an
\* earlier call left one; of its two orders one was filled, one was not.
C25_Witness ==
    /\ pc = "done"
    /\ Len(batch) = 2
    /\ Len(ret) = 1
    /\ Len(trades) = 2
    /\ \E i \in 1 .. 2 : looked[i] > 0 /\ orders[batch[i]].status = "rejected"

\* ------------------------------------------------------------------ C27
\* the lot is one remove_volume(…, cutoff) may take from
Eligible(lot, cutoff) == cutoff = NoneDt \/ lot.acquired_at < cutoff

\* how often a lot occurs in a list
RECURSIVE Occurrences(_, _)
Occurrences(list, lot) ==
    IF list = <<>> THEN 0
    ELSE (IF Head(list) = lot THEN 1 ELSE 0) + Occurrences(Tail(list), lot)

\* the instants at which lots of the list were acquired
AcquiredAt(lots) == {lots[i].acquired_at : i \in 1 .. Len(lots)}

\* what remove_volume(v, cutoff) did to the lots it was given
RemovedFifo(lots, v, cutoff, after) ==
    LET taken(t)   == VolumeAcquiredAt(lots, t) - VolumeAcquiredAt(after, t)
        untouched(lot) == ~Eligible(lot, cutoff)
        split      == {i \in 1 .. Len(after) :
                         Occurrences(after, after[i]) > Occurrences(lots, after[i])}
    IN  /\ Volume(after) = Volume(lots) - v
        /\ AcquiredAt(after) \subseteq AcquiredAt(lots)
        \* nothing is taken from lots at or after the cutoff: they are kept whole
        /\ \A i \in 1 .. Len(lots) :
             untouched(lots[i]) => Occurrences(after, lots[i]) = Occurrences(lots, lots[i])
        \* a later instant gives shares only when every earlier one gave all it had
        /\ \A t \in AcquiredAt(lots) :
             /\ taken(t) >= 0
             /\ taken(t) > 0
                => \A u \in AcquiredAt(lots) :
                     (u < t /\ (cutoff = NoneDt \/ u < cutoff))
                     => VolumeAcquiredAt(after, u) = 0
        \* at most one lot is new, and it is a smaller copy of an old one
        /\ Cardinality(split) <= 1
        /\ \A i \in split :
             \E j \in 1 .. Len(lots) :
               /\ lots[j].cost_price = after[i].cost_price
               /\ lots[j].acquired_at = after[i].acquired_at
               /\ lots[j].volume > after[i].volume
               /\ after[i].volume > 0
        \* the lots come back in ascending acquired_at order
        /\ \A i, j \in 1 .. Len(after) :
             i < j => after[i].acquired_at <= after[j].acquired_at

\* remove_volume on every lot history the engine builds
C27_EveryRemovalIsFifo ==
    \A s \in DOMAIN positions :
       LET lots == positions[s].lots
       IN  \A cutoff \in Times \cup {NoneDt} :
             \A v \in 1 .. Volume(lots) :
               LET r == RemoveVolume(lots, v, cutoff)
               IN  ~r.raised => RemovedFifo(lots, v, cutoff, r.lots)

\* the remove_volume call of a filled sell
C27_SellStepIsFifo ==
    FillStep(SELL)
    => RemovedFifo(LotsOf(positions, StepSymbol), StepVolume, AllowedBefore,
                   LotsOf(positions', StepSymbol))

\* C27: remove_volume(v, cutoff) takes from the eligible lots (acquired
\* before the cutoff, all lots without one) in ascending acquired_at order,
\* a later lot only when every earlier eligible lot is used up; at most one
\* lot is split, its residual keeping cost_price and acquired_at; the other
\* lots are kept whole; the total volume goes down by exactly v.
C27_RemoveVolumeIsFifo ==
    /\ [] C27_EveryRemovalIsFifo
    /\ [][C27_SellStepIsFifo]_vars

\* C27 witness: A was bought twice, the later lot being stored first; a
\* sell of one share has split the older lot and left the later one whole.
C27_Witness ==
    /\ pc = "done"
    /\ "A" \in DOMAIN positions
    /\ Len(positions["A"].lots) = 2
    /\ positions["A"].lots[1].volume = 1
    /\ positions["A"].lots[2].volume = 2
    /\ positions["A"].lots[1].acquired_at < positions["A"].lots[2].acquired_at
    /\ Len(trades) = 3
    /\ trades[1].timestamp > trades[2].timestamp
    /\ trades[3].side = SELL

\* ------------------------------------------------------------------ C28
\* shares of a symbol the trades of a list bought, less those they sold
RECURSIVE NetVolume(_, _)
NetVolume(ts, symbol) ==
    IF ts = <<>> THEN 0
    ELSE (IF Head(ts).symbol # symbol THEN 0
          ELSE IF Head(ts).side = BUY THEN Head(ts).volume ELSE 0 - Head(ts).volume)
         + NetVolume(Tail(ts), symbol)

\* every Position holds what account.trades bought less what they sold, and
\* cash is an initial cash plus what account.trades paid and received
C28_LedgerBalances ==
    /\ \A s \in Symbols : Volume(LotsOf(positions, s)) = NetVolume(trades, s)
    /\ \E initial_cash \in InitialCash : cash = initial_cash + CashEffect(trades)

\* the initial cash of that balance never changes: cash moves by what the
\* step adds to account.trades
C28_CashMovesWithTrades ==
    cash' - CashEffect(trades') = cash - CashEffect(trades)

\* C28: after any sequence of execute calls on a fresh Account, the volume
\* of every Position (0 when absent) is the volume of the symbol's buy
\* trades less that of its sell trades, and cash is the initial cash less
\* the notional of the buys plus the notional of the sells less fee + tax
\* of every trade.
C28_LedgerConservation ==
    /\ [] C28_LedgerBalances
    /\ [][C28_CashMovesWithTrades]_vars

\* C28 witness: after two calls the account has bought A and B and sold A.
C28_Witness ==
    /\ pc = "done"
    /\ Len(trades) = 3
    /\ \E i \in 1 .. 3 : trades[i].side = SELL /\ trades[i].symbol = "A"
    /\ \E i \in 1 .. 3 : trades[i].side = BUY /\ trades[i].symbol = "B"
    /\ NetVolume(trades, "A") = 1
    /\ cash < 8 * Scale

\* ------------------------------------------------------------------ C29
\* remove_volume raises exactly when the eligible lots hold less than asked
\* for, and then hands back the lots it was given, lot for lot
C29_RaisingRemovalKeepsLots ==
    \A s \in DOMAIN positions :
       LET lots == positions[s].lots
       IN  \A cutoff \in Times \cup {NoneDt} :
             \A v \in 1 .. Volume(lots) + 1 :
               LET r == RemoveVolume(lots, v, cutoff)
               IN  /\ r.raised <=> AvailableVolume(lots, cutoff) < v
                   /\ r.raised => r.lots = lots

\* the remove_volume call of _settle_trades that raises
C29_RaisingSettleKeepsLots ==
    (session.pc = "settle" /\ session'.pc = "raised") => positions' = positions

\* C29: when remove_volume raises because the eligible volume is below the
\* requested volume, the lots of the Position are exactly as before the
\* call: none is partly drained, dropped or moved.
C29_RaiseLeavesLotsUntouched ==
    /\ [] C29_RaisingRemovalKeepsLots
    /\ [][C29_RaisingSettleKeepsLots]_vars

\* C29 witness: the broker reported a sell of A at the instant its only lot
\* was acquired; _settle_trades raised and the lot is still there.
C29_Witness ==
    /\ session.pc = "raised"
    /\ session.adapter = "live"
    /\ session.i <= Len(session.trades)
    /\ session.trades[session.i].side = SELL
    /\ session.trades[session.i].symbol = "A"
    /\ "A" \in DOMAIN positions
    /\ Len(positions["A"].lots) = 1
    /\ positions["A"].lots[1].acquired_at = session.dt

\* =========================================================================
\* failing collaborators of TradingSession and ExecutionEngine
\* =========================================================================

\* ------------------------------------------------------------------ C24
\* C24 as stated: no exception of a collaborator is swallowed or replaced
\* by a fallback value: whatever the price lookup, the repository or the
\* broker raised during a step has left execute.
C24_NoFailureIsCaught ==
    session.caught # "none"
    => /\ session.pc = "raised"
       /\ session.error = session.caught

\* an execute call a collaborator ended is over; the only exception that
\* is ever caught is that of a valuation lookup, after which the snapshot
\* was taken and the call went on to the collaborator calls that follow
C24_FailuresInStates ==
    /\ session.error \in CollaboratorCalls => session.pc = "raised"
    /\ session.caught \in {"none", "price_lookup"}
    /\ session.caught = "price_lookup"
       => /\ session.snapshot # NoSnapshot
          /\ equity_curve # <<>>
          /\ equity_curve[Len(equity_curve)].equity = session.snapshot.equity
          /\ session.error \in {"none", "write_trading_equity", "sync_positions"}

\* the exception of the collaborator call has left execute
Propagated(call) == session'.pc = "raised" /\ session'.error = call

\* a repository write was forwarded and _record goes on
Written(op) ==
    /\ session'.pc # "raised"
    /\ session'.error = "none"
    /\ Len(repo') = Len(repo) + 1
    /\ repo'[Len(repo')].op = op
    /\ IsPrefix(repo, repo')

\* every step that makes a collaborator call either has the effect of the
\* call and goes on, or ends execute with the exception of that call and
\* with the account, the curve and the repository as they were: no step
\* goes on without the effect, and none ends with another exception
C24_CallReturnsOrPropagates ==
    /\ (session.pc = "engine" /\ InLoop /\ session' # session)
       => /\ Propagated("price_lookup") \/ Propagated("ValueError")
          /\ UNCHANGED <<cash, positions, trades, orders, equity_curve, repo>>
    /\ (session.pc = "engine" /\ InLoop /\ session' = session /\ idx' # idx)
       => Len(looked') = Len(looked) + 1
    /\ (session.pc = "record_orders" /\ session' # session)
       => \/ Written("write_trading_orders")
          \/ Propagated("write_trading_orders") /\ UNCHANGED <<engine, equity_curve, repo>>
    /\ (session.pc = "record_trades" /\ session' # session)
       => \/ Written("write_trading_trades")
          \/ Propagated("write_trading_trades") /\ UNCHANGED <<engine, equity_curve, repo>>
    /\ (session.pc = "record_equity" /\ session' # session)
       => \/ Written("write_trading_equity")
          \/ Propagated("write_trading_equity") /\ UNCHANGED <<engine, equity_curve, repo>>
    /\ (session.pc = "sync" /\ session' # session)
       => \/ session'.pc = "returned" /\ session'.error = "none"
          \/ Propagated("sync_positions") /\ UNCHANGED <<engine, equity_curve, repo>>
    /\ (session.pc \in SessionAtRest /\ session'.calls = session.calls + 1
        /\ session.adapter = "live")
       => \/ /\ session'.pc = "settle"
             /\ session'.error = "none"
             /\ Len(session'.trades) = Len(session'.orders)
          \/ /\ Propagated("submit_orders")
             /\ UNCHANGED <<cash, positions, trades, orders, equity_curve, repo>>

\* C24 (amended): an exception raised by the repository, by the broker or
\* by the price lookup that prices an order propagates unchanged to the
\* caller of execute; an exception raised by the price lookup that values a
\* held position is caught by _safe_price_lookup and replaced by the
\* position's cost_price, and the step goes on.
C24_OnlyValuationLookupIsCaught ==
    /\ [] C24_FailuresInStates
    /\ [][C24_CallReturnsOrPropagates]_vars

\* C24 witness: a sandbox call bought A; the valuation lookup raised, the
\* snapshot was taken at cost, and write_trading_equity then raised and
\* ended the call.
C24_Witness ==
    /\ session.adapter = "sandbox"
    /\ session.pc = "raised"
    /\ session.error = "write_trading_equity"
    /\ session.caught = "price_lookup"
    /\ "A" \in DOMAIN positions
    /\ Len(repo) = 2

\* =========================================================================
\* backtest/metrics.py: compute_metrics
\* =========================================================================
MaxPoints == 3

\* float values are kept exact, as fractions in lowest terms
RECURSIVE Gcd(_, _)
Gcd(a, b) == IF b = 0 THEN a ELSE Gcd(b, a % b)

Ratio(num, den) ==
    LET n == IF den < 0 THEN 0 - num ELSE num
        d == IF den < 0 THEN 0 - den ELSE den
        g == Gcd(IF n < 0 THEN 0 - n ELSE n, d)
    IN  [num |-> n \div g, den |-> d \div g]

\* compute_metrics from line 12 on, for a curve that is not empty.
\* annual_return is growth ** exponent - 1 and sharpe_ratio is
\* sign * sqrt(square): the power and the root are kept as their operands
MetricsOf(curve) ==
    LET equity_values == [i \in 1 .. Len(curve) |-> curve[i].equity]
        Add(a, b)    == Ratio(a.num * b.den + b.num * a.den, a.den * b.den)
        Sub(a, b)    == Ratio(a.num * b.den - b.num * a.den, a.den * b.den)
        Mul(a, b)    == Ratio(a.num * b.num, a.den * b.den)
        Less(a, b)   == a.num * b.den < b.num * a.den
        Zero         == Ratio(0, 1)
        start        == equity_values[1]
        end          == equity_values[Len(equity_values)]
        total_return == IF start # 0 THEN Ratio(end - start, start) ELSE Zero
        periods      == Len(equity_values)
        annual_return ==
            IF periods > 1
            THEN [growth |-> Add(Ratio(1, 1), total_return),
                  exponent |-> Ratio(252, Max(periods, 1))]
            ELSE [growth |-> Add(Ratio(1, 1), total_return), exponent |-> Ratio(1, 1)]
        RECURSIVE DrawdownLoop(_, _, _)
        DrawdownLoop(i, peak, max_drawdown) ==
            IF i > Len(equity_values) THEN max_drawdown
            ELSE LET value    == equity_values[i]
                     top      == Max(peak, value)
                     drawdown == IF top # 0 THEN Ratio(value - top, top) ELSE Zero
                 IN  DrawdownLoop(i + 1, top,
                                  IF Less(drawdown, max_drawdown)
                                  THEN drawdown ELSE max_drawdown)
        RECURSIVE ReturnsLoop(_)
        ReturnsLoop(i) ==
            IF i > Len(equity_values) THEN <<>>
            ELSE LET prev == equity_values[i - 1]
                     curr == equity_values[i]
                 IN  (IF prev # 0 THEN <<Ratio(curr - prev, prev)>> ELSE <<>>)
                         \o ReturnsLoop(i + 1)
        returns == ReturnsLoop(2)
        RECURSIVE Total(_)
        Total(list) == IF list = <<>> THEN Zero ELSE Add(Head(list), Total(Tail(list)))
        count      == Ratio(1, Len(returns))
        avg_return == Mul(Total(returns), count)
        variance   ==
            Mul(Total([i \in 1 .. Len(returns) |->
                            Mul(Sub(returns[i], avg_return),
                                  Sub(returns[i], avg_return))]),
                  count)
        sharpe_ratio ==
            IF returns = <<>> \/ variance.num = 0 THEN [sign |-> 0, square |-> Zero]
            ELSE [sign   |-> IF avg_return.num > 0 THEN 1
                             ELSE IF avg_return.num < 0 THEN -1 ELSE 0,
                  square |-> Mul(Mul(Mul(avg_return, avg_return), Ratio(252, 1)),
                                   Ratio(variance.den, variance.num))]
    IN  [ total_return  |-> total_return,
          annual_return |-> annual_return,
          max_drawdown  |-> DrawdownLoop(1, equity_values[1], Zero),
          sharpe_ratio  |-> sharpe_ratio ]

\* mutant: compute_metrics without `if not equity_curve: return {}'
MetricsUnchecked(curve) ==
    IF curve = <<>> THEN [raised |-> "IndexError"] ELSE MetricsOf(curve)

\* compute_metrics: {} is the dict without keys
Metrics(curve) == IF curve = <<>> THEN <<>> ELSE MetricsOf(curve)

\* the equity curves compute_metrics is given
MetricsCurves ==
    SeqsUpTo({[date |-> 0, equity |-> v] : v \in {0, 1, 2, 4}}, MaxPoints)

MetricsInit ==
    /\ NoTrading
    /\ risk = NoDriver
    /\ gateway = NoDriver
    /\ metrics = [pc |-> "idle", equity_curve |-> <<>>, given |-> <<>>, results |-> <<>>]

\* compute_metrics(equity_curve): the list is read, never assigned to, so
\* the caller holds after the call the list it handed in
ComputeMetrics(curve) ==
    /\ metrics' = [metrics EXCEPT
                     !.pc = IF metrics.pc = "idle" THEN "once" ELSE "twice",
                     !.equity_curve = curve,
                     !.given = IF metrics.pc = "idle" THEN curve ELSE @,
                     !.results = Append(@, Metrics(curve))]
    /\ UNCHANGED <<engine, equity_curve, repo, session, backtest, risk, gateway>>

\* a first call on any curve, and a second call on the same list
MetricsNext ==
    \/ metrics.pc = "idle" /\ \E curve \in MetricsCurves : ComputeMetrics(curve)
    \/ metrics.pc = "once" /\ ComputeMetrics(metrics.equity_curve)

MetricsSpec == MetricsInit /\ [][MetricsNext]_vars

\* =========================================================================
\* model_gateway/service.py: ModelGateway.chat_completions
\* =========================================================================
MaxGatewayCalls == 3
MaxClock == 3

\* circuit_breaker["recovery_seconds"], in ticks of the clock
RecoverySeconds == 2

\* the endpoints of the settings, by name; each has the same
\* circuit_breaker["failure_threshold"], 1 or 2
GatewayEndpoints == {"e1", "e2"}

\* EndpointStats()
NewStats ==
    [ success_count |-> 0, failure_count |-> 0, consecutive_failures |-> 0,
      opened_until |-> NoneDt, last_error |-> "None" ]

\* what _is_endpoint_available returns for an enabled endpoint
IsEndpointAvailable(stats, endpoint, now) ==
    stats[endpoint].opened_until = NoneDt \/ stats[endpoint].opened_until <= now

\* what _is_endpoint_available leaves in self._stats: a breaker whose time
\* has come is closed
CheckedStats(stats, endpoint, now) ==
    IF stats[endpoint].opened_until # NoneDt /\ stats[endpoint].opened_until <= now
    THEN [stats EXCEPT ![endpoint].opened_until = NoneDt,
                       ![endpoint].consecutive_failures = 0]
    ELSE stats

\* _record_success
RecordSuccess(stats, endpoint) ==
    [stats EXCEPT ![endpoint].success_count = @ + 1,
                  ![endpoint].consecutive_failures = 0,
                  ![endpoint].opened_until = NoneDt,
                  ![endpoint].last_error = "None"]

\* _record_failure
RecordFailure(stats, endpoint, exc, threshold, now) ==
    LET consecutive_failures == stats[endpoint].consecutive_failures + 1
    IN  [stats EXCEPT ![endpoint].failure_count = @ + 1,
                      ![endpoint].consecutive_failures = consecutive_failures,
                      ![endpoint].last_error = exc,
                      ![endpoint].opened_until =
                          IF consecutive_failures >= threshold
                          THEN now + RecoverySeconds ELSE @]

\* _weighted_attempts: the endpoints it is given, each once, in the order
\* random.shuffle leaves them
WeightedAttempts(endpoints) ==
    {order \in SeqsUpTo(endpoints, Cardinality(endpoints)) :
        /\ Len(order) = Cardinality(endpoints)
        /\ \A i, j \in 1 .. Len(order) : order[i] = order[j] => i = j}

GatewayInit ==
    /\ NoTrading
    /\ risk = NoDriver
    /\ metrics = NoDriver
    /\ \E enabled \in BOOLEAN, endpoints \in SUBSET GatewayEndpoints,
          threshold \in {1, 2} :
         gateway = [ pc |-> "idle", enabled |-> enabled, endpoints |-> endpoints,
                     threshold |-> threshold,
                     stats |-> [e \in GatewayEndpoints |-> NewStats],
                     now |-> 0, calls |-> 0, attempts |-> <<>>, i |-> 1,
                     last_exception |-> "None", invoked |-> <<>>,
                     endpoint |-> "None", error |-> "None" ]

\* chat_completions up to its for loop
ChatCompletions(attempts) ==
    /\ gateway.pc # "loop"
    /\ gateway.calls < MaxGatewayCalls
    /\ LET called == [gateway EXCEPT !.calls = @ + 1, !.attempts = <<>>, !.i = 1,
                                     !.last_exception = "None", !.invoked = <<>>,
                                     !.endpoint = "None", !.error = "None"]
           available == {e \in gateway.endpoints :
                            IsEndpointAvailable(gateway.stats, e, gateway.now)}
           checked   == [e \in GatewayEndpoints |->
                            IF e \in gateway.endpoints
                            THEN CheckedStats(gateway.stats, e, gateway.now)[e]
                            ELSE gateway.stats[e]]
           endpoints == IF available = {} THEN gateway.endpoints ELSE available
       IN  IF ~gateway.enabled
           THEN /\ attempts = <<>>
                /\ gateway' = [called EXCEPT !.pc = "raised", !.error = "RuntimeError"]
           ELSE IF endpoints = {}
           THEN /\ attempts = <<>>
                /\ gateway' = [called EXCEPT !.pc = "raised", !.error = "RuntimeError",
                                             !.stats = checked]
           ELSE /\ attempts \in WeightedAttempts(endpoints)
                /\ gateway' = [called EXCEPT !.pc = "loop", !.stats = checked,
                                             !.attempts = attempts]
    /\ UNCHANGED <<engine, equity_curve, repo, session, backtest, risk, metrics>>

\* one iteration of `for endpoint in attempts': the endpoint is passed over,
\* or invoked; the response is returned, or the exception of the call or
\* of the audit that follows it is recorded
Attempt(outcome) ==
    /\ gateway.pc = "loop"
    /\ gateway.i <= Len(gateway.attempts)
    /\ LET endpoint == gateway.attempts[gateway.i]
           checked  == CheckedStats(gateway.stats, endpoint, gateway.now)
           exc      == <<endpoint, outcome>>
           invoked  == Append(gateway.invoked, exc)
       IN  IF ~IsEndpointAvailable(gateway.stats, endpoint, gateway.now)
           THEN gateway' = [gateway EXCEPT !.i = @ + 1]
           ELSE IF outcome = "ok"
           THEN gateway' = [gateway EXCEPT !.pc = "returned", !.endpoint = endpoint,
                                           !.invoked = invoked,
                                           !.stats = RecordSuccess(checked, endpoint)]
           ELSE gateway' =
                  [gateway EXCEPT
                     !.i = @ + 1, !.invoked = invoked, !.last_exception = exc,
                     !.stats = RecordFailure(
                                  IF outcome = "audit_error"
                                  THEN RecordSuccess(checked, endpoint) ELSE checked,
                                  endpoint, exc, gateway.threshold, gateway.now)]
    /\ UNCHANGED <<engine, equity_curve, repo, session, backtest, risk, metrics>>

\* assert last_exception is not None; raise last_exception. Without a
\* last_exception the assert raises AssertionError, and under python -O,
\* where asserts are dropped, `raise None' raises TypeError
RaiseLast(optimized) ==
    /\ gateway.pc = "loop"
    /\ gateway.i > Len(gateway.attempts)
    /\ gateway' = [gateway EXCEPT
                     !.pc = "raised",
                     !.error = IF gateway.last_exception # "None"
                               THEN gateway.last_exception
                               ELSE IF optimized THEN "TypeError" ELSE "AssertionError"]
    /\ UNCHANGED <<engine, equity_curve, repo, session, backtest, risk, metrics>>

\* time.time() moves on
Tick ==
    /\ gateway.now < MaxClock
    /\ gateway' = [gateway EXCEPT !.now = @ + 1]
    /\ UNCHANGED <<engine, equity_curve, repo, session, backtest, risk, metrics>>

GatewayNext ==
    \/ /\ gateway.pc # "loop"
       /\ \E attempts \in SeqsUpTo(GatewayEndpoints, Cardinality(GatewayEndpoints)) :
            ChatCompletions(attempts)
    \/ \E outcome \in {"ok", "http_error", "audit_error"} : Attempt(outcome)
    \/ \E optimized \in BOOLEAN : RaiseLast(optimized)
    \/ Tick

GatewaySpec == GatewayInit /\ [][GatewayNext]_vars

\* =========================================================================
\* RiskPolicy: the documented scenario, the callback, the curve at or
\* below zero
\* =========================================================================

\* ------------------------------------------------------------------ C21
\* equity_curve [100000, 94000]
ScenarioCurve == << [kind |-> "num", equity |-> 100000],
                    [kind |-> "num", equity |-> 94000] >>

\* no alert of another rule than the drawdown
OnlyDrawdownTripped == \A i \in 1 .. Len(risk.alerts) : risk.alerts[i].rule = "drawdown"

\* the outcome of the scenario, given the percentages (in hundredths) the
\* message of the drawdown alert may show
ScenarioOutcome(shown) ==
    (Evaluated /\ risk.equity_curve = ScenarioCurve)
    => /\ risk.thresholds.max_equity_drawdown = 1
          => /\ ~risk.proceed
             /\ [rule |-> "drawdown", key |-> "-"] \in AlertSet
             /\ risk.drawdown \in shown
       /\ (risk.thresholds.max_equity_drawdown = 20 /\ OnlyDrawdownTripped)
          => /\ risk.proceed
             /\ risk.alerts = <<>>
             /\ risk.drawdown = NoneDt

\* C21 as stated: for the curve [100000, 94000] with max_equity_drawdown =
\* 0.05 evaluate returns proceed = False and the drawdown alert reports a
\* drawdown of about 6.38%; with max_equity_drawdown = 1.0 and no other
\* threshold tripped it returns proceed = True.
C21_ReportsAbout638 == ScenarioOutcome(633 .. 643)

\* C21 (amended): the same, the drawdown alert reporting 6.00%, which is
\* (100000 - 94000) / 100000: the loss is taken of the maximum equity.
C21_Reports600 == ScenarioOutcome({600})

\* C21 witness: the scenario as the test runs it, with the position of
\* 1000 shares at 90 under max_position_ratio = 0.4: two alerts, no proceed.
C21_Witness ==
    /\ Evaluated
    /\ risk.equity_curve = ScenarioCurve
    /\ risk.thresholds.max_equity_drawdown = 1
    /\ risk.thresholds.max_position_ratio = 8
    /\ risk.positions # <<>>
    /\ Len(risk.alerts) = 2
    /\ ~risk.proceed
    /\ risk.drawdown = 600

\* ------------------------------------------------------------------ C22
\* C22: the alert callback is called once per triggered message, in alert
\* order, each time with (message, {"alerts": all alerts}), and not at all
\* when no rule triggers; and whatever the callback does, evaluate returns
\* the proceed flag and the alerts that the curve and the positions
\* determine.
C22_CallbackNeverInfluences ==
    risk.pc # "ready"
    => LET determined == EvaluateAlerts(risk.thresholds, risk.sector_lookup,
                                        risk.equity_curve, risk.positions, risk.now)
       IN  /\ risk.pc = "evaluated"
           /\ risk.alerts = determined
           /\ risk.proceed = (determined = <<>>)
           /\ Len(risk.calls) = Len(determined)
           /\ \A i \in 1 .. Len(risk.calls) :
                risk.calls[i] = [message |-> determined[i], details |-> determined]

\* ------------------------------------------------------------------ C30
\* the numbers of the curve handed to evaluate (every item is one here)
CurveValues == {risk.equity_curve[i].equity : i \in 1 .. Len(risk.equity_curve)}
HasAlert(rule) == \E i \in 1 .. Len(risk.alerts) : risk.alerts[i].rule = rule

\* C30: evaluate raises no drawdown alert when the maximum equity of the
\* curve is <= 0, and no position or sector alert when the curve is empty
\* or its latest equity is <= 0, whatever the positions; so on a curve of
\* non-positive values, or of none, it returns proceed = True whenever the
\* volatility and holding checks do not fire.
C30_NothingToMeasureAgainst ==
    (Evaluated /\ risk.callback = "log")
    => LET curve == risk.equity_curve
       IN  /\ (curve # <<>> /\ \A v \in CurveValues : v <= 0) => ~HasAlert("drawdown")
           /\ (curve = <<>> \/ curve[Len(curve)].equity <= 0)
              => ~HasAlert("position") /\ ~HasAlert("sector")
           /\ ((\A v \in CurveValues : v <= 0)
               /\ ~HasAlert("volatility") /\ ~HasAlert("holding"))
              => risk.proceed /\ risk.alerts = <<>>

\* C30 witness: every check is enabled, the curve went from 0 to -2, two
\* positions are held in new lots; the decision is proceed.
C30_Witness ==
    /\ Evaluated
    /\ risk.callback = "log"
    /\ \A rule \in {"drawdown", "volatility", "position", "sector", "holding"} :
         ThresholdOf(risk.thresholds, rule) > 0
    /\ risk.equity_curve = << [kind |-> "num", equity |-> 0],
                              [kind |-> "num", equity |-> -2] >>
    /\ Len(risk.positions) = 2
    /\ risk.proceed

InvokedEndpoint(k) == gateway.invoked[k][1]
InvokedOutcome(k) == gateway.invoked[k][2]

\* the call went through its loop and found no endpoint that answered
LoopExhausted == gateway.pc = "raised" /\ gateway.attempts # <<>>

\* C26: chat_completions falls back across endpoints: every endpoint is
\* invoked at most once per call, the first successful response is
\* returned, and only when none succeeds does the call raise, and then the
\* failure of the last endpoint attempted: last_exception is never None
\* where it is raised, whatever circuit breakers have opened.
C26_FallbackRaisesLastFailure ==
    /\ \A j, k \in 1 .. Len(gateway.invoked) :
         InvokedEndpoint(j) = InvokedEndpoint(k) => j = k
    /\ gateway.pc = "returned"
       => /\ gateway.invoked # <<>>
          /\ InvokedOutcome(Len(gateway.invoked)) = "ok"
          /\ InvokedEndpoint(Len(gateway.invoked)) = gateway.endpoint
          /\ \A k \in 1 .. Len(gateway.invoked) - 1 : InvokedOutcome(k) # "ok"
    /\ LoopExhausted
       => /\ gateway.last_exception # "None"
          /\ gateway.invoked # <<>>
          /\ gateway.error = gateway.invoked[Len(gateway.invoked)]
          /\ \A k \in 1 .. Len(gateway.invoked) : InvokedOutcome(k) # "ok"

====
